---- MODULE Spec2Model ----
(***************************************************************************)
(* Model of the sprite decode / texture cache pipeline of the mGBA 3DS     *)
(* FireRed overlay (src/platform/3ds/sprite.c, romprofile.c).              *)
(*                                                                         *)
(*   SpecCache : the 8-slot texture cache (findOrDecode, spriteFree)       *)
(*               driven through the public draw functions.                 *)
(*   SpecLZ    : decompLZ77 executed statement by statement on bounded     *)
(*               compressed inputs.                                        *)
(*   SpecPal   : one entry of the 16-entry colour table of                 *)
(*               decodeSpriteSlot, for any RGB555 source value.            *)
(*   SpecProfile : romprofileDetect / romprofileGet on any ROM header.     *)
(*   SpecSubstruct : findSubstructOffset (overlay.c) for the four          *)
(*               substructure roles of a personality value.                *)
(*   SpecTile  : the 4bpp tile walk of decodeSpriteSlot into the swizzled  *)
(*               texture.                                                  *)
(*   SpecBattle, SpecBattleLong : the battle log (battlePoll and the       *)
(*               log accessors), over several short battles and over one   *)
(*               battle long enough to wrap the ring buffer.               *)
(*   SpecOverlay : the input handling of overlayDraw (overlay.c).          *)
(*   SpecSlot  : readSlot (overlay.c) on one party record, and what        *)
(*               drawDetail and the sidebar do with the result.            *)
(***************************************************************************)
EXTENDS Integers, Sequences, FiniteSets, TLC

VARIABLES
    \* ---- sprite.c file-scope state ----
    sSpriteTex,      \* slot -> texture content (<<>> = no texture allocated)
    sCachedSpecies,  \* slot -> uint16 cache key
    sTexInited,      \* slot -> 0/1
    sNextEvict,      \* round-robin cursor
    sWhiteInited,    \* 0/1, the 8x8 white texture of drawRect
    \* ---- observation of the calls (not program state) ----
    lastCall,        \* what the most recent public call did
    fullMisses,      \* misses taken with all slots in use since the last spriteFree
    nRequested,      \* how many keys of RequestOrder were looked up since the last spriteFree
    \* ---- one call of decompLZ77 (its arguments, locals and output) ----
    lz,
    \* ---- one entry of the colour table built by decodeSpriteSlot ----
    palEntry,
    \* ---- romprofile.c file-scope state and observation of its calls ----
    sActive,         \* index into sProfiles of the active profile, or NULL
    detect,          \* the most recent romprofileDetect call
    got,             \* the most recent romprofileGet call
    \* ---- the findSubstructOffset calls made for one personality value ----
    sub,
    \* ---- the tile walk of one decodeSpriteSlot call ----
    tile,
    \* ---- one readSlot call and the drawing that follows it ----
    mon,
    \* ---- overlay.c file-scope state and observation of overlayDraw ----
    ui,
    \* ---- the battle log of sprite.c and observation of battlePoll ----
    bt

cacheVars == <<sSpriteTex, sCachedSpecies, sTexInited, sNextEvict, sWhiteInited,
               lastCall, fullMisses, nRequested>>

auxVars == <<palEntry, sActive, detect, got, sub>>

moreVars == <<tile, mon, ui, bt>>

vars == <<sSpriteTex, sCachedSpecies, sTexInited, sNextEvict, sWhiteInited,
          lastCall, fullMisses, nRequested, lz, palEntry, sActive, detect,
          got, sub, tile, mon, ui, bt>>

(***************************************************************************)
(* Program constants                                                       *)
(***************************************************************************)
SPRITE_CACHE_SIZE == 8
MAX_DECOMP == 4096
PAL_RAW_SIZE == 64
PAL_BYTES == 32
LZ_TAG == 16
ROM_MARKER == 8
GRAY_BIT == 32768
speciesCount == 412

Slots == 0 .. (SPRITE_CACHE_SIZE - 1)

NULL == -1

\* sProfiles[0], the only and default profile
FIRST_PROFILE == 0

\* role numbers of the four substructures: 0=Growth, 1=Attacks, 2=EVs, 3=Misc
Roles == 0 .. 3

(***************************************************************************)
(* Bounds of the model                                                     *)
(***************************************************************************)
\* cap on the counter of misses taken with a full cache
MaxFullMisses == 9
\* largest capacity (maxOut) handed to decompLZ77
LZCap == 9

(***************************************************************************)
(* The ROM image handed to the draw functions.  Only the bytes the cache   *)
(* path looks at are modelled: the two pointer tables and the 4-byte LZ77  *)
(* header at each pointed-to offset.                                       *)
(***************************************************************************)
\* 32-bit little-endian word at rom + spriteTable + species * 8
RomSpritePtr(species) ==
    IF species = 5 THEN 9 * 16777216 + 4096 * species       \* top byte 0x09
    ELSE ROM_MARKER * 16777216 + 4096 * species

\* 32-bit little-endian word at rom + paletteTable + species * 8
RomPalettePtr(species) ==
    IF species = 6 THEN 4096 * species + 2048               \* top byte 0x00
    ELSE ROM_MARKER * 16777216 + 4096 * species + 2048

\* 32-bit little-endian word at rom + off (an LZ77 header when off is a
\* sprite or palette offset)
RomHeaderWord(off) ==
    LET species == off \div 4096
        isPal   == (off % 4096) = 2048
    IN  IF isPal THEN
            IF species = 2 THEN LZ_TAG + 256 * 16             \* 16 bytes: short
            ELSE IF species = 3 THEN 32767 + 65536 * 31       \* raw colours
            ELSE IF species = 4 THEN LZ_TAG + 256 * 65        \* 65 bytes: long
            ELSE IF species = 411 THEN LZ_TAG + 256 * 64      \* fills palRaw
            ELSE LZ_TAG + 256 * 32
        ELSE IF species = 7 THEN 17 + 256 * 2048            \* wrong tag
        ELSE IF species = 8 THEN LZ_TAG + 256 * 4097        \* size > MAX_DECOMP
        ELSE IF species = 9 THEN LZ_TAG                     \* declared size 0
        ELSE LZ_TAG + 256 * 2048

(***************************************************************************)
(* decompLZ77                                                              *)
(***************************************************************************)
\* size = (header >> 8) & 0x00FFFFFF
LZSize(header) == (header \div 256) % 16777216

\* the tag test as it would be if any tag were accepted
LZTagOKAny(header) == TRUE

\* (header & 0xFF) != 0x10 -> return 0
LZTagOK(header) == header % 256 = LZ_TAG

\* the capacity test as it would be on a 16-bit size field
LZSizeOK16(header, maxOut) == ~((header \div 256) % 65536 > maxOut)

\* size > maxOut -> return 0
LZSizeOK(header, maxOut) == ~(LZSize(header) > maxOut)

\* what decompLZ77 returns for a 4-byte header word and a capacity
LZ77Return(header, maxOut) ==
    IF ~LZTagOK(header) THEN 0
    ELSE IF ~LZSizeOK(header, maxOut) THEN 0
    ELSE LZSize(header)

\* byte values the compressed stream is made of (as literal; as b1: length
\* 3, 3, 11 and offset high nibble 0, 1, 0; as b2: offset 1, 2, 129)
ByteSet == {0, 1, 128}

\* flag byte values: all chunks literal, last chunk compressed, third chunk
\* compressed, first chunk compressed
FlagSet == {0, 1, 32, 128}

\* what a read before the start of the output buffer may deliver
UnknownBytes == {0, 255}

\* the capacities the callers pass
MaxOuts == {2, LZCap}

\* the 4 header bytes: tag, then the 24-bit size, low byte first
Headers ==
    {tag + 256 * (b1 + 256 * (b2 + 256 * b3)) :
        tag \in {LZ_TAG, 17}, b1 \in 0 .. (LZCap + 1), b2 \in {0, 1}, b3 \in {0, 1}}

UNWRITTEN == -1

\* output buffer plus the bytes right behind it
DstIdx == 0 .. (LZCap + 1)

LZIdle ==
    [pc |-> "idle", header |-> 0, maxOut |-> 0, size |-> 0, si |-> 0, di |-> 0,
     flags |-> 0, bit |-> 0, len |-> 0, off |-> 0, i |-> 0,
     dst |-> [k \in DstIdx |-> UNWRITTEN], ret |-> 0,
     \* observation: was a copy or a flag byte cut short by di reaching size
     stopped |-> "no",
     \* observation: index of the most recent back-reference read, whether
     \* a back-reference offset exceeded the output count when it was
     \* decoded, whether a read index was negative
     rd |-> 0, badOff |-> FALSE, negRead |-> FALSE]

\* flags & (1 << bit)
FlagBit(flags, bit) == (flags \div (2 ^ bit)) % 2

\* len = ((b1 >> 4) & 0xF) + 3
LZLen(b1) == ((b1 \div 16) % 16) + 3

\* off = (((b1 & 0xF) << 8) | b2) + 1
LZOff(b1, b2) == ((b1 % 16) * 256 + b2) + 1

\* the loop test as it would be if only the length ended a back-reference copy
LZCopyGoesOnLenOnly(i, len, di, size) == i < len

\* i < len && di < size
LZCopyGoesOn(i, len, di, size) == i < len /\ di < size

\* the loop test as it would be if a flag byte were always used up
LZChunkGoesOnAllBits(bit, di, size) == bit >= 0

\* bit >= 0 && di < size
LZChunkGoesOn(bit, di, size) == bit >= 0 /\ di < size

\* lines 66-73: header checks
LZHeader ==
    /\ UNCHANGED <<cacheVars, auxVars, moreVars>>
    /\ lz.pc = "entry"
    /\ IF ~LZTagOK(lz.header) \/ ~LZSizeOK(lz.header, lz.maxOut)
       THEN lz' = [lz EXCEPT !.pc = "done", !.ret = 0]
       ELSE lz' = [lz EXCEPT !.pc = "outer", !.size = LZSize(lz.header),
                             !.si = 4, !.di = 0]

\* line 74-75: while (di < size) { flags = src[si++]; bit = 7
LZFlags ==
    /\ UNCHANGED <<cacheVars, auxVars, moreVars>>
    /\ lz.pc = "outer"
    /\ lz.di < lz.size
    /\ \E b \in FlagSet :
          lz' = [lz EXCEPT !.pc = "inner", !.flags = b, !.si = lz.si + 1, !.bit = 7]

\* line 92: return size
LZReturn ==
    /\ UNCHANGED <<cacheVars, auxVars, moreVars>>
    /\ lz.pc = "outer"
    /\ ~(lz.di < lz.size)
    /\ lz' = [lz EXCEPT !.pc = "done", !.ret = lz.size]

\* lines 77-81: a set flag bit -- read b1, b2 of a back-reference
LZBackref ==
    /\ UNCHANGED <<cacheVars, auxVars, moreVars>>
    /\ lz.pc = "inner"
    /\ LZChunkGoesOn(lz.bit, lz.di, lz.size)
    /\ FlagBit(lz.flags, lz.bit) = 1
    /\ \E b1 \in ByteSet, b2 \in ByteSet :
          lz' = [lz EXCEPT !.pc = "copy", !.si = lz.si + 2,
                           !.len = LZLen(b1), !.off = LZOff(b1, b2), !.i = 0,
                           !.badOff = lz.badOff \/ LZOff(b1, b2) > lz.di]

\* the read index as it would be if it were clamped to the buffer start
ReadIndexClamped(di, off) == IF di - off < 0 THEN 0 ELSE di - off

\* the index read by dst[di] = dst[di - off]
ReadIndex(di, off) == di - off

\* the byte copied as a block copy of the bytes present when the
\* back-reference started would deliver it: bytes at or behind the start
\* position (di - i) are not decoded yet and read as zero
CopySourceBlock(dst, rd, di, i) == IF rd >= di - i THEN 0 ELSE dst[rd]

\* the byte dst[di - off] as the buffer stands when byte i of the copy is made
CopySource(dst, rd, di, i) == dst[rd]

\* lines 83-86: one byte of the back-reference copy
LZCopy ==
    /\ UNCHANGED <<cacheVars, auxVars, moreVars>>
    /\ lz.pc = "copy"
    /\ LZCopyGoesOn(lz.i, lz.len, lz.di, lz.size)
    /\ LET rd == ReadIndex(lz.di, lz.off)
       IN  \E v \in (IF rd >= 0 THEN {CopySource(lz.dst, rd, lz.di, lz.i)}
                                 ELSE UnknownBytes) :
              lz' = [lz EXCEPT !.dst = [k \in DOMAIN lz.dst \cup {lz.di} |->
                                           IF k = lz.di THEN v ELSE lz.dst[k]],
                               !.di = lz.di + 1, !.i = lz.i + 1,
                               !.rd = rd, !.negRead = lz.negRead \/ rd < 0]

\* line 83 false: the copy is over, next bit
LZCopyEnd ==
    /\ UNCHANGED <<cacheVars, auxVars, moreVars>>
    /\ lz.pc = "copy"
    /\ ~LZCopyGoesOn(lz.i, lz.len, lz.di, lz.size)
    /\ lz' = [lz EXCEPT !.pc = "inner", !.bit = lz.bit - 1,
                        !.stopped = IF lz.i < lz.len THEN "copy" ELSE lz.stopped]

\* line 88: a clear flag bit -- dst[di++] = src[si++]
LZLiteral ==
    /\ UNCHANGED <<cacheVars, auxVars, moreVars>>
    /\ lz.pc = "inner"
    /\ LZChunkGoesOn(lz.bit, lz.di, lz.size)
    /\ FlagBit(lz.flags, lz.bit) = 0
    /\ \E b \in ByteSet :
          lz' = [lz EXCEPT !.dst = [k \in DOMAIN lz.dst \cup {lz.di} |->
                                       IF k = lz.di THEN b ELSE lz.dst[k]],
                           !.di = lz.di + 1, !.si = lz.si + 1,
                           !.bit = lz.bit - 1]

\* line 76 false: the flag byte is used up or the output is complete
LZFlagsEnd ==
    /\ UNCHANGED <<cacheVars, auxVars, moreVars>>
    /\ lz.pc = "inner"
    /\ ~LZChunkGoesOn(lz.bit, lz.di, lz.size)
    /\ lz' = [lz EXCEPT !.pc = "outer",
                        !.stopped = IF lz.bit >= 0 /\ lz.stopped = "no"
                                    THEN "flags" ELSE lz.stopped]

\* the pointer test as it would be if any top byte from 0x08 up passed
PtrOKLoose(ptr) == ptr \div 16777216 >= ROM_MARKER

\* lines 132, 137: (ptr >> 24) == 0x08
PtrOK(ptr) == ptr \div 16777216 = ROM_MARKER

\* the test of line 142 as it would be if it were left out
DecompFailedNever(decompSize) == FALSE

\* line 142: decompSize == 0
DecompFailed(decompSize) == decompSize = 0

\* the test of line 148 as it would be if any successful decompression counted
PalFromLZAny(palSize) == palSize > 0

\* line 148: palSize >= 32
PalFromLZ(palSize) == palSize >= PAL_BYTES

\* lines 147-152: where palSrc points
PaletteSource(palOff) ==
    IF PalFromLZ(LZ77Return(RomHeaderWord(palOff), PAL_RAW_SIZE)) THEN "lz"
    ELSE "raw"


(***************************************************************************)
(* decodeSpriteSlot                                                        *)
(***************************************************************************)
\* pixel content produced by a successful decode of (species, grayscale)
Image(species, grayscale) == <<species, grayscale>>

\* decodeSpriteSlot as it would be if it released the target slot before
\* validating the ROM entry
decodeSpriteSlotDiscards(species, slot, grayscale) ==
    LET sprPtr == RomSpritePtr(species)
        palPtr == RomPalettePtr(species)
        sprOff == sprPtr % 33554432
        palOff == palPtr % 33554432
        fail(n) == [ret |-> 0, lz |-> n, pal |-> "none",
                    inited |-> [sTexInited EXCEPT ![slot] = 0],
                    tex |-> [sSpriteTex EXCEPT ![slot] = <<>>]]
    IN  IF ~PtrOK(sprPtr) THEN fail(0)
        ELSE IF ~PtrOK(palPtr) THEN fail(0)
        ELSE IF DecompFailed(LZ77Return(RomHeaderWord(sprOff), MAX_DECOMP))
        THEN fail(1)
        ELSE [ret    |-> 1,
              lz     |-> 2,
              pal    |-> PaletteSource(palOff),
              inited |-> [sTexInited EXCEPT ![slot] = 1],
              tex    |-> [sSpriteTex EXCEPT ![slot] = Image(species, grayscale)]]

\* decodeSpriteSlot as it would be with one texture shared by all slots
decodeSpriteSlotShared(species, slot, grayscale) ==
    LET sprPtr == RomSpritePtr(species)
        palPtr == RomPalettePtr(species)
        sprOff == sprPtr % 33554432
        palOff == palPtr % 33554432
        fail(n) == [ret |-> 0, lz |-> n, pal |-> "none", inited |-> sTexInited, tex |-> sSpriteTex]
    IN  IF ~PtrOK(sprPtr) THEN fail(0)
        ELSE IF ~PtrOK(palPtr) THEN fail(0)
        ELSE IF DecompFailed(LZ77Return(RomHeaderWord(sprOff), MAX_DECOMP))
        THEN fail(1)
        ELSE [ret    |-> 1,
              lz     |-> 2,
              pal    |-> PaletteSource(palOff),
              inited |-> [sTexInited EXCEPT ![slot] = 1],
              tex    |-> [i \in Slots |-> IF sSpriteTex[i] # <<>> \/ i = slot
                                          THEN Image(species, grayscale)
                                          ELSE sSpriteTex[i]]]

\* the result of decodeSpriteSlot(rom, species, slot, grayscale):
\*   ret     the int it returns
\*   lz      how many times it called decompLZ77
\*   pal     where the colours were read from: the decompressed palette
\*           ("lz") or the ROM region itself ("raw")
\*   inited  sTexInited afterwards
\*   tex     sSpriteTex afterwards
decodeSpriteSlot(species, slot, grayscale) ==
    LET sprPtr == RomSpritePtr(species)
        palPtr == RomPalettePtr(species)
        sprOff == sprPtr % 33554432
        palOff == palPtr % 33554432
        fail(n) == [ret |-> 0, lz |-> n, pal |-> "none", inited |-> sTexInited, tex |-> sSpriteTex]
    IN  IF ~PtrOK(sprPtr) THEN fail(0)
        ELSE IF ~PtrOK(palPtr) THEN fail(0)
        ELSE IF DecompFailed(LZ77Return(RomHeaderWord(sprOff), MAX_DECOMP))
        THEN fail(1)
        ELSE [ret    |-> 1,
              lz     |-> 2,
              pal    |-> PaletteSource(palOff),
              inited |-> [sTexInited EXCEPT ![slot] = 1],
              tex    |-> [sSpriteTex EXCEPT ![slot] = Image(species, grayscale)]]

(***************************************************************************)
(* findOrDecode                                                            *)
(***************************************************************************)
\* the cache key as it would be without the grayscale bit
CacheKeyNoGray(species, grayscale) == species

\* species | (grayscale ? 0x8000 : 0) on uint16
CacheKey(species, grayscale) ==
    IF grayscale # 0 /\ (species \div GRAY_BIT) % 2 = 0
    THEN species + GRAY_BIT
    ELSE species

MinOf(S) == CHOOSE m \in S : \A n \in S : m <= n

\* the first loop as it would be if it started at slot 1
FindCachedFrom1(cacheKey) ==
    LET hits == {i \in Slots : i >= 1 /\ sTexInited[i] # 0
                               /\ sCachedSpecies[i] = cacheKey}
    IN  IF hits = {} THEN NULL ELSE MinOf(hits)

\* first loop: the lowest slot in use under cacheKey, or NULL
FindCached(cacheKey) ==
    LET hits == {i \in Slots : sTexInited[i] # 0 /\ sCachedSpecies[i] = cacheKey}
    IN  IF hits = {} THEN NULL ELSE MinOf(hits)

\* the second loop as it would be if it stopped one slot early
FirstEmptySkipLast ==
    LET empty == {i \in Slots : i < SPRITE_CACHE_SIZE - 1 /\ sTexInited[i] = 0}
    IN  IF empty = {} THEN NULL ELSE MinOf(empty)

\* the second loop as it would be if it took the highest slot not in use
FirstEmptyHighest ==
    LET empty == {i \in Slots : sTexInited[i] = 0}
    IN  IF empty = {} THEN NULL ELSE CHOOSE m \in empty : \A n \in empty : m >= n

\* second loop: the lowest slot not in use, or NULL
FirstEmpty ==
    LET empty == {i \in Slots : sTexInited[i] = 0}
    IN  IF empty = {} THEN NULL ELSE MinOf(empty)

\* the cursor update as it would be with an off-by-one modulus
AdvanceEvictShort(cursor) == (cursor + 1) % (SPRITE_CACHE_SIZE - 1)

\* the cursor update as it would be without the modulus
AdvanceEvictNoWrap(cursor) == cursor + 1

\* sNextEvict = (sNextEvict + 1) % SPRITE_CACHE_SIZE
AdvanceEvict(cursor) == (cursor + 1) % SPRITE_CACHE_SIZE

\* the slot the all-slots-full branch decodes into
EvictTarget(cursor) == cursor

\* the key update as it would be if it ignored the result of the decode
KeyAfterDecodeAlways(ret, i, cacheKey) ==
    [sCachedSpecies EXCEPT ![i] = cacheKey]

\* the stored key of slot i after decodeSpriteSlot returned ret
KeyAfterDecode(ret, i, cacheKey) ==
    IF ret # 0 THEN [sCachedSpecies EXCEPT ![i] = cacheKey] ELSE sCachedSpecies

findOrDecode(species, grayscale) ==
    LET cacheKey == CacheKey(species, grayscale)
        hit      == FindCached(cacheKey)
        empty    == FirstEmpty
    IN  IF hit # NULL
        THEN /\ lastCall' = [op |-> "hit", species |-> species, gray |-> grayscale,
                             slot |-> hit, ret |-> hit, decodes |-> 0, lz |-> 0, pal |-> "none"]
             /\ UNCHANGED <<sSpriteTex, sCachedSpecies, sTexInited, sNextEvict,
                            fullMisses>>
        ELSE IF empty # NULL
        THEN LET d == decodeSpriteSlot(species, empty, grayscale)
             IN  /\ sTexInited' = d.inited
                 /\ sSpriteTex' = d.tex
                 /\ sCachedSpecies' = KeyAfterDecode(d.ret, empty, cacheKey)
                 /\ lastCall' = [op |-> "fill", species |-> species, gray |-> grayscale,
                                 slot |-> empty,
                                 ret |-> IF d.ret # 0 THEN empty ELSE NULL,
                                 decodes |-> 1, lz |-> d.lz, pal |-> d.pal]
                 /\ UNCHANGED <<sNextEvict, fullMisses>>
        ELSE LET i == EvictTarget(sNextEvict)
                 d == decodeSpriteSlot(species, i, grayscale)
                 k == KeyAfterDecode(d.ret, i, cacheKey)
             IN  /\ fullMisses < MaxFullMisses
                 /\ sNextEvict' = AdvanceEvict(sNextEvict)
                 /\ sTexInited' = d.inited
                 /\ sSpriteTex' = d.tex
                 /\ sCachedSpecies' = k
                 /\ lastCall' = [op |-> "evict", species |-> species, gray |-> grayscale,
                                 slot |-> i,
                                 ret |-> IF d.ret # 0 THEN i ELSE NULL,
                                 decodes |-> 1, lz |-> d.lz, pal |-> d.pal]
                 /\ fullMisses' = fullMisses + 1

(***************************************************************************)
(* Public draw functions                                                   *)
(***************************************************************************)
\* The requests of the callers.  Keys of undamaged species are first asked
\* for in the order of RequestOrder after a spriteFree and may be asked for
\* again at any time; the requests of OtherRequests (species 5..9 have
\* damaged ROM entries, 0 and 412 are outside the species table) may be made
\* at any time.
RequestOrder ==
    << <<1, 0>>, <<1, 1>>, <<2, 0>>, <<3, 1>>, <<3, 0>>, <<4, 0>>, <<411, 1>>,
       <<411, 0>>, <<2, 1>> >>

OtherRequests ==
    { <<5, 0>>, <<6, 1>>, <<7, 0>>, <<8, 1>>, <<9, 0>>, <<0, 0>>, <<412, 1>> }

\* <<w, h>> of a request
Dims == { <<64, 64>>, <<0, 64>>, <<32, -1>> }

Requestable ==
    {RequestOrder[n] : n \in 1 .. (IF nRequested < Len(RequestOrder)
                                  THEN nRequested + 1 ELSE Len(RequestOrder))}
        \cup OtherRequests

IsFresh(species, grayscale) ==
    /\ nRequested < Len(RequestOrder)
    /\ RequestOrder[nRequested + 1] = <<species, grayscale>>

drawPokemonSpriteInternal(species, w, h, grayscale) ==
    /\ UNCHANGED <<sWhiteInited, lz, auxVars, moreVars>>
    /\ IF species = 0 \/ species >= speciesCount \/ w <= 0 \/ h <= 0
       THEN /\ lastCall' = [op |-> "rejected", species |-> 0, gray |-> 0,
                            slot |-> NULL, ret |-> NULL, decodes |-> 0, lz |-> 0, pal |-> "none"]
            /\ UNCHANGED <<sSpriteTex, sCachedSpecies, sTexInited, sNextEvict,
                           fullMisses, nRequested>>
       ELSE /\ findOrDecode(species, grayscale)
            /\ nRequested' = IF IsFresh(species, grayscale) THEN nRequested + 1
                                                            ELSE nRequested

\* drawPokemonSprite / drawPokemonSpriteGray
Draw ==
    \E req \in Requestable, dim \in Dims :
        drawPokemonSpriteInternal(req[1], dim[1], dim[2], req[2])

\* drawRect -> initWhiteTex
DrawRect ==
    /\ sWhiteInited' = 1
    /\ lastCall' = [op |-> "rect", species |-> 0, gray |-> 0, slot |-> NULL,
                    ret |-> NULL, decodes |-> 0, lz |-> 0, pal |-> "none"]
    /\ UNCHANGED <<sSpriteTex, sCachedSpecies, sTexInited, sNextEvict,
                   fullMisses, nRequested, lz, auxVars, moreVars>>

\* spriteFree as it would be without the reset of the cursor
spriteFreeKeepsCursor ==
    /\ sTexInited' = [i \in Slots |-> 0]
    /\ sCachedSpecies' = [i \in Slots |-> IF sTexInited[i] # 0 THEN 0
                                          ELSE sCachedSpecies[i]]
    /\ sSpriteTex' = [i \in Slots |-> IF sTexInited[i] # 0 THEN <<>>
                                      ELSE sSpriteTex[i]]
    /\ sWhiteInited' = 0
    /\ lastCall' = [op |-> "free", species |-> 0, gray |-> 0, slot |-> NULL,
                    ret |-> NULL, decodes |-> 0, lz |-> 0, pal |-> "none"]
    /\ fullMisses' = 0
    /\ nRequested' = 0
    /\ UNCHANGED <<sNextEvict, lz, auxVars, moreVars>>

spriteFree ==
    /\ sTexInited' = [i \in Slots |-> 0]
    /\ sCachedSpecies' = [i \in Slots |-> IF sTexInited[i] # 0 THEN 0
                                          ELSE sCachedSpecies[i]]
    /\ sSpriteTex' = [i \in Slots |-> IF sTexInited[i] # 0 THEN <<>>
                                      ELSE sSpriteTex[i]]
    /\ sNextEvict' = 0
    /\ sWhiteInited' = 0
    /\ lastCall' = [op |-> "free", species |-> 0, gray |-> 0, slot |-> NULL,
                    ret |-> NULL, decodes |-> 0, lz |-> 0, pal |-> "none"]
    /\ fullMisses' = 0
    /\ nRequested' = 0
    /\ UNCHANGED <<lz, auxVars, moreVars>>

CacheStart ==
    /\ sSpriteTex = [i \in Slots |-> <<>>]
    /\ sCachedSpecies = [i \in Slots |-> 0]
    /\ sTexInited = [i \in Slots |-> 0]
    /\ sNextEvict = 0
    /\ sWhiteInited = 0
    /\ lastCall = [op |-> "none", species |-> 0, gray |-> 0, slot |-> NULL,
                   ret |-> NULL, decodes |-> 0, lz |-> 0, pal |-> "none"]
    /\ fullMisses = 0
    /\ nRequested = 0

\* no palette entry, profile call or substructure lookup in progress;
\* sActive as its initialiser leaves it
PalIdle == [pc |-> "idle", i |-> 0, c |-> 0, grayscale |-> 0,
            out |-> <<0, 0, 0, 0>>]
DetectIdle == [pc |-> "idle", gameCode |-> <<0, 0, 0, 0>>, version |-> 0, ret |-> 0]
GotIdle == [pc |-> "idle", ret |-> NULL]
SubIdle == [pc |-> "idle", pid |-> <<0, 0>>, off |-> [w \in Roles |-> NULL],
            fallback |-> FALSE]

\* no tile walk, readSlot call, overlay frame or battle poll has happened
TileIdle == [pc |-> "idle", decompSize |-> 0, ty |-> 0, tx |-> 0, py |-> 0,
             px |-> 0, wr |-> {}, nw |-> 0, rds |-> {}, nr |-> 0,
             last |-> [sx |-> 0, sy |-> 0, src |-> 0, byte |-> 0, lo |-> 0,
                       hi |-> 0, dLo |-> 0, dHi |-> 0],
             ret |-> 0]
\* overlay.c lines 258-272: struct PokeSlot before readSlot has written it
\* (NULL stands for a field not written); 32-bit fields are <<high half, low
\* half>>
OutBlank == [species |-> NULL, exp |-> <<NULL, NULL>>, speciesName |-> NULL,
             moves |-> <<NULL, NULL, NULL, NULL>>,
             pp |-> <<NULL, NULL, NULL, NULL>>,
             level |-> NULL, curHP |-> NULL, maxHP |-> NULL, nature |-> NULL,
             evs |-> <<NULL, NULL, NULL, NULL, NULL, NULL>>,
             ivs |-> <<NULL, NULL, NULL, NULL, NULL, NULL>>]

\* one call of readSlot and what its caller does with the result: the party
\* record (pid, otid, the 12 raw words at 0x20, level and HP), the locals
\* key and decrypted, the struct out, the fields written so far, the return
\* value, and what the caller put on the screen
MonIdle == [pc |-> "idle", pid |-> <<0, 0>>, otid |-> <<0, 0>>,
            raw |-> [i \in 0 .. 11 |-> <<0, 0>>], hp |-> 0,
            key |-> <<0, 0>>, decrypted |-> [i \in 0 .. 11 |-> <<0, 0>>],
            out |-> OutBlank, written |-> {}, ret |-> NULL,
            caller |-> "none", screen |-> "none", sprite |-> NULL,
            gray |-> 0]
\* overlay.c lines 45-49: the overlay's statics.  sPrevHeld is the set of keys
\* held at the previous frame.  partyCount (clamped), touch, calls and
\* detailIdx observe the last frame: the slot index passed to drawDetail.
UiIdle == [sOverlayMode |-> 0, sPrevHeld |-> {}, sShowLearnset |-> 0,
           sLearnsetScroll |-> 0, partyCount |-> 0, touch |-> <<0, 0>>,
           calls |-> 0, detailIdx |-> 0]
\* the file-scope variables of the battle log as their initialisers leave
\* them; an entry of sLog is <<class of its text, number of the push since
\* the last reset>>, <<"", 0>> for zeroed memory.  seq, battles, total (the
\* number of pushes ever), last (the last call) and flags (the flag word the
\* most recent poll read, 0 before the first) observe the calls.
BtIdle == [sLog |-> [i \in 0 .. 47 |-> <<"", 0>>],
           sLogHead |-> 0, sLogCount |-> 0, sLogScroll |-> 0, sLogVisible |-> 0,
           sBattleWasActive |-> 0,
           sPrevSpecies |-> <<0, 0>>, sPrevHP |-> <<0, 0>>,
           sPrevStatus |-> <<0, 0>>,
           sPendingMove |-> 0, sPendingAttacker |-> 255,
           seq |-> 0, battles |-> 0,
           total |-> 0,
           last |-> "none", flags |-> 0]

MoreStart ==
    /\ tile = TileIdle
    /\ mon = MonIdle
    /\ ui = UiIdle
    /\ bt = BtIdle

AuxStart ==
    /\ MoreStart
    /\ palEntry = PalIdle
    /\ sActive = FIRST_PROFILE
    /\ detect = DetectIdle
    /\ got = GotIdle
    /\ sub = SubIdle

CacheInit == CacheStart /\ lz = LZIdle /\ AuxStart

CacheNext == Draw \/ DrawRect \/ spriteFree

SpecCache == CacheInit /\ [][CacheNext]_vars

(***************************************************************************)
(* decompLZ77 on its own: any header of Headers, any capacity of MaxOuts,  *)
(* the stream behind the header revealed byte by byte as it is read.       *)
(***************************************************************************)
LZInit ==
    /\ CacheStart
    /\ AuxStart
    /\ \E h \in Headers, m \in MaxOuts :
          lz = [LZIdle EXCEPT !.pc = "entry", !.header = h, !.maxOut = m]

LZNext ==
    \/ LZHeader
    \/ LZFlags
    \/ LZBackref
    \/ LZCopy
    \/ LZCopyEnd
    \/ LZLiteral
    \/ LZFlagsEnd
    \/ LZReturn

SpecLZ == LZInit /\ [][LZNext]_vars

(***************************************************************************)
(* The colour table of decodeSpriteSlot (sprite.c:154-171).  palSrc holds  *)
(* 16 little-endian uint16 values; entry i of the table is built from the  *)
(* value at palSrc + i * 2 alone, so one entry is modelled for any index   *)
(* and any source value.                                                   *)
(***************************************************************************)
\* the uint16 values read from palSrc
Colours == 0 .. 32767

\* the same with bit 15 set
ColoursHigh == {32768, 32768 + 31, 32768 + 31744, 65535}

PalIndices == 0 .. 15

\* ((c >> shift) & 0x1F)
Chan5(c, shift) == (c \div (2 ^ shift)) % 32

\* lines 162-164: uint8_t x = v << 3
Expand5(v) == (v * 8) % 256

\* the luma as it would be with a shift by 7
LumaShift7(r, g, b) == ((r * 77 + g * 150 + b * 29) \div 128) % 256

\* line 166: (uint8_t)((r * 77 + g * 150 + b * 29) >> 8)
Luma(r, g, b) == ((r * 77 + g * 150 + b * 29) \div 256) % 256

\* a uint32_t pixel is held as its four bytes in memory, low to high
\* (little-endian): <<bits 0-7, bits 8-15, bits 16-23, bits 24-31>>
\* the 32-bit pixel as it would be with r and b exchanged
PackBGRA(r, g, b) == <<255, r, g, b>>

\* lines 169-170: (r << 24) | (g << 16) | (b << 8) | 0xFF
PackRGBA(r, g, b) == <<255, b, g, r>>

\* line 157: 0x00000000
ZERO_PIXEL == <<0, 0, 0, 0>>

\* lines 159-170: the body of the loop for one source value
PaletteColour(c, grayscale) ==
    LET r == Expand5(Chan5(c, 0))
        g == Expand5(Chan5(c, 5))
        b == Expand5(Chan5(c, 10))
        lum == Luma(r, g, b)
    IN  IF grayscale # 0 THEN PackRGBA(lum, lum, lum)
                         ELSE PackRGBA(r, g, b)

\* the table entry as it would be if entry 0 were converted like the others
PaletteEntryAllConverted(i, c, grayscale) == PaletteColour(c, grayscale)

\* lines 157-171: palette[i] for the source value c at palSrc + i * 2
PaletteEntry(i, c, grayscale) ==
    IF i = 0 THEN ZERO_PIXEL ELSE PaletteColour(c, grayscale)

\* line 157: palette[0] = 0x00000000
BuildEntry0 ==
    /\ palEntry.pc = "entry"
    /\ palEntry.i = 0
    /\ palEntry' = [palEntry EXCEPT !.pc = "done",
                       !.out = PaletteEntry(0, palEntry.c, palEntry.grayscale)]
    /\ UNCHANGED <<moreVars, cacheVars, lz, sActive, detect, got, sub>>

\* lines 158-171: one iteration of the loop
BuildEntry ==
    /\ palEntry.pc = "entry"
    /\ palEntry.i >= 1
    /\ palEntry.i < 16
    /\ palEntry' = [palEntry EXCEPT !.pc = "done",
                       !.out = PaletteEntry(palEntry.i, palEntry.c,
                                            palEntry.grayscale)]
    /\ UNCHANGED <<moreVars, cacheVars, lz, sActive, detect, got, sub>>

PalInit ==
    /\ CacheStart
    /\ MoreStart
    /\ lz = LZIdle
    /\ sActive = FIRST_PROFILE
    /\ detect = DetectIdle
    /\ got = GotIdle
    /\ sub = SubIdle
    /\ \E i \in PalIndices, c \in Colours \cup ColoursHigh, g \in {0, 1} :
          palEntry = [PalIdle EXCEPT !.pc = "entry", !.i = i, !.c = c,
                                     !.grayscale = g]

PalNext == BuildEntry0 \/ BuildEntry

SpecPal == PalInit /\ [][PalNext]_vars

(***************************************************************************)
(* romprofile.c: romprofileDetect and romprofileGet.  Of the ROM only the  *)
(* game code at 0xAC..0xAF and the version byte at 0xBC are read.          *)
(***************************************************************************)
\* "BPRE"
BPRE == <<66, 80, 82, 69>>

\* byte values of the game code: 'B', 'P', 'R', 'E' (so also "BPEE")
CodeBytes == {66, 80, 82, 69}

\* byte values of the version
Versions == {0, 1, 255}

\* the test of line 50 as it would be without the version
DetectMatchesAnyVersion(gameCode, version) == gameCode = BPRE

\* line 50: memcmp(gameCode, "BPRE", 4) == 0 && version == 0
DetectMatches(gameCode, version) == gameCode = BPRE /\ version = 0

\* lines 39-61: romprofileDetect(rom)
romprofileDetect ==
    /\ \E b0 \in CodeBytes, b1 \in CodeBytes, b2 \in CodeBytes, b3 \in CodeBytes,
          version \in Versions :
          LET gameCode == <<b0, b1, b2, b3>>
          IN  IF DetectMatches(gameCode, version)
              THEN /\ sActive' = FIRST_PROFILE
                   /\ detect' = [pc |-> "done", gameCode |-> gameCode,
                                 version |-> version, ret |-> 1]
              ELSE /\ sActive' = FIRST_PROFILE
                   /\ detect' = [pc |-> "done", gameCode |-> gameCode,
                                 version |-> version, ret |-> 0]
    /\ UNCHANGED <<moreVars, cacheVars, lz, palEntry, got, sub>>

\* lines 63-65: romprofileGet()
romprofileGet ==
    /\ got' = [pc |-> "done", ret |-> sActive]
    /\ UNCHANGED <<moreVars, cacheVars, lz, palEntry, sActive, detect, sub>>

ProfileInit == CacheStart /\ lz = LZIdle /\ AuxStart

ProfileNext == romprofileDetect \/ romprofileGet

SpecProfile == ProfileInit /\ [][ProfileNext]_vars

(***************************************************************************)
(* overlay.c: the substructure order table and findSubstructOffset, called *)
(* once per role for a personality value (overlay.c:290-339).              *)
(***************************************************************************)
\* the table as it would be with a row that names one role twice
sSubstructOrderBadRow ==
    << <<0,1,2,3>>, <<0,1,3,3>>, <<0,2,1,3>>, <<0,2,3,1>>,
       <<0,3,1,2>>, <<0,3,2,1>>, <<1,0,2,3>>, <<1,0,3,2>>,
       <<1,2,0,3>>, <<1,2,3,0>>, <<1,3,0,2>>, <<1,3,2,0>>,
       <<2,0,1,3>>, <<2,0,3,1>>, <<2,1,0,3>>, <<2,1,3,0>>,
       <<2,3,0,1>>, <<2,3,1,0>>, <<3,0,1,2>>, <<3,0,2,1>>,
       <<3,1,0,2>>, <<3,1,2,0>>, <<3,2,0,1>>, <<3,2,1,0>> >>

\* lines 56-69: sSubstructOrder[24][4]; row r of the C table is element
\* r + 1 here, position pos is element pos + 1 of the row
sSubstructOrder ==
    << <<0,1,2,3>>, <<0,1,3,2>>, <<0,2,1,3>>, <<0,2,3,1>>,
       <<0,3,1,2>>, <<0,3,2,1>>, <<1,0,2,3>>, <<1,0,3,2>>,
       <<1,2,0,3>>, <<1,2,3,0>>, <<1,3,0,2>>, <<1,3,2,0>>,
       <<2,0,1,3>>, <<2,0,3,1>>, <<2,1,0,3>>, <<2,1,3,0>>,
       <<2,3,0,1>>, <<2,3,1,0>>, <<3,0,1,2>>, <<3,0,2,1>>,
       <<3,1,0,2>>, <<3,1,2,0>>, <<3,2,0,1>>, <<3,2,1,0>> >>

ORDER_ROWS == 24
SUBSTRUCT_SIZE == 12

\* a uint32_t personality value is held as <<high half, low half>> of 16
\* bits each; the values: the low ones and the ones up to 0xFFFFFFFF
Pids == {<<0, lo>> : lo \in 0 .. 95}
        \cup {<<65535, lo>> : lo \in (65536 - 96) .. 65535}

\* pid % n on uint32_t, for n up to 32767
PidMod(pid, n) == (((pid[1] % n) * (65536 % n)) + (pid[2] % n)) % n

\* lines 218-227: findSubstructOffset(pid, which); fallback tells whether
\* the return 0 after the loop was reached
findSubstructOffset(pid, which) ==
    LET order == PidMod(pid, ORDER_ROWS)
        hits  == {pos \in 0 .. 3 : sSubstructOrder[order + 1][pos + 1] = which}
    IN  IF hits = {} THEN [ret |-> 0, fallback |-> TRUE]
        ELSE [ret |-> MinOf(hits) * SUBSTRUCT_SIZE, fallback |-> FALSE]

\* one of the calls of lines 290, 300, 330, 339
LookupRole ==
    /\ sub.pc = "entry"
    /\ \E which \in Roles :
          /\ sub.off[which] = NULL
          /\ LET f == findSubstructOffset(sub.pid, which)
             IN  sub' = [sub EXCEPT !.off[which] = f.ret,
                                    !.fallback = sub.fallback \/ f.fallback]
    /\ UNCHANGED <<moreVars, cacheVars, lz, palEntry, sActive, detect, got>>

SubstructInit ==
    /\ CacheStart
    /\ MoreStart
    /\ lz = LZIdle
    /\ palEntry = PalIdle
    /\ sActive = FIRST_PROFILE
    /\ detect = DetectIdle
    /\ got = GotIdle
    /\ \E pid \in Pids : sub = [SubIdle EXCEPT !.pc = "entry", !.pid = pid]

SubstructNext == LookupRole

SpecSubstruct == SubstructInit /\ [][SubstructNext]_vars

(***************************************************************************)
(* The tile walk of decodeSpriteSlot (sprite.c:180-213) after a successful *)
(* decompression.  Of the texture only which indices were written is kept, *)
(* of the decode buffer only which indices were read; the bytes of the     *)
(* buffer are revealed as they are read.  A byte at or behind decompSize   *)
(* was never written by decompLZ77 and is whatever the stack held.         *)
(***************************************************************************)
SPRITE_DIM == 64
TILE_SIZE == 8
TILES_PER_ROW == SPRITE_DIM \div TILE_SIZE
BPP4_TILE_BYTES == 32

\* values of a byte of the decode buffer (nibbles 0/0, 1/2, 0/15, 15/10)
TileBytes == {0, 33, 240, 175}

\* the sizes decompLZ77 returned for the sprite stream
DecompSizes == {1, 2048, MAX_DECOMP}

\* bit k of v
BitOf(v, k) == (v \div (2 ^ k)) % 2

\* mortonIdx as it would be with the roles of x and y exchanged
mortonIdxYX(x, y) ==
    BitOf(y, 0) + 2 * BitOf(x, 0) + 4 * BitOf(y, 1) + 8 * BitOf(x, 1)
    + 16 * BitOf(y, 2) + 32 * BitOf(x, 2)

\* lines 99-105: (x & 1) | ((y & 1) << 1) | ((x & 2) << 1) | ((y & 2) << 2)
\*               | ((x & 4) << 2) | ((y & 4) << 3)
mortonIdx(x, y) ==
    (x % 2) + ((y % 2) * 2) + (((x \div 2) % 2) * 2 * 2)
    + (((y \div 2) % 2) * 2 * 4) + (((x \div 4) % 2) * 4 * 4)
    + (((y \div 4) % 2) * 4 * 8)

\* texOffset as it would be without the row stride
texOffsetNoStride(x, y, texW) ==
    ((y \div 8) + (x \div 8)) * 64 + mortonIdx(x % 8, y % 8)

\* lines 109-111: ((y >> 3) * (texW >> 3) + (x >> 3)) * 64
\*                + mortonIdx(x & 7, y & 7)
texOffset(x, y, texW) ==
    ((y \div 8) * (texW \div 8) + (x \div 8)) * 64 + mortonIdx(x % 8, y % 8)

\* lines 180-182: texData = ...; memset(texData, 0, ...)
TileClear ==
    /\ tile.pc = "clear"
    /\ tile' = [tile EXCEPT !.pc = "walk"]
    /\ UNCHANGED <<cacheVars, lz, auxVars, mon, ui, bt>>

\* lines 189-208: one iteration of the innermost loop, with the loop
\* increments that follow it
TilePair ==
    /\ tile.pc = "walk"
    /\ LET tileIdx == tile.ty * TILES_PER_ROW + tile.tx
           src == tileIdx * BPP4_TILE_BYTES + tile.py * (TILE_SIZE \div 2)
                  + tile.px \div 2
           sx == tile.tx * TILE_SIZE + tile.px
           sy == tile.ty * TILE_SIZE + tile.py
           dLo == texOffset(sx, sy, SPRITE_DIM)
           dHi == texOffset(sx + 1, sy, SPRITE_DIM)
           pxN == IF tile.px + 2 < TILE_SIZE THEN tile.px + 2 ELSE 0
           pyN == IF pxN # 0 THEN tile.py
                  ELSE IF tile.py + 1 < TILE_SIZE THEN tile.py + 1 ELSE 0
           txN == IF pxN # 0 \/ pyN # 0 THEN tile.tx
                  ELSE IF tile.tx + 1 < TILES_PER_ROW THEN tile.tx + 1 ELSE 0
           tyN == IF pxN # 0 \/ pyN # 0 \/ txN # 0 THEN tile.ty ELSE tile.ty + 1
       IN  \E byte \in TileBytes :
              tile' = [tile EXCEPT
                         !.pc = IF tyN < TILES_PER_ROW THEN "walk" ELSE "flush",
                         !.px = pxN, !.py = pyN, !.tx = txN, !.ty = tyN,
                         !.wr = tile.wr \cup {dLo, dHi},
                         !.nw = tile.nw + 2,
                         !.rds = tile.rds \cup {src},
                         !.nr = tile.nr + 1,
                         !.last = [sx |-> sx, sy |-> sy, src |-> src,
                                   byte |-> byte, lo |-> byte % 16,
                                   hi |-> (byte \div 16) % 16,
                                   dLo |-> dLo, dHi |-> dHi]]
    /\ UNCHANGED <<cacheVars, lz, auxVars, mon, ui, bt>>

\* lines 211-213: flush and return 1
TileFlush ==
    /\ tile.pc = "flush"
    /\ tile' = [tile EXCEPT !.pc = "done", !.ret = 1]
    /\ UNCHANGED <<cacheVars, lz, auxVars, mon, ui, bt>>

TileInit ==
    /\ CacheStart
    /\ lz = LZIdle
    /\ palEntry = PalIdle
    /\ sActive = FIRST_PROFILE
    /\ detect = DetectIdle
    /\ got = GotIdle
    /\ sub = SubIdle
    /\ mon = MonIdle
    /\ ui = UiIdle
    /\ bt = BtIdle
    /\ \E n \in DecompSizes : tile = [TileIdle EXCEPT !.pc = "clear",
                                                      !.decompSize = n]

TileNext == TileClear \/ TilePair \/ TileFlush

SpecTile == TileInit /\ [][TileNext]_vars

(***************************************************************************)
(* The battle log (battlePoll, logPush, logGet, battleDrawLog and the      *)
(* accessors).  Texts are kept by class only: "start", "end", or "event"   *)
(* for every line the diff produces.                                       *)
(***************************************************************************)
LOG_MAX == 48
NO_ATTACKER == 255

\* caps on the number of pushes and of battle starts: several short battles
\* in SpecBattle, one battle long enough to wrap the ring in SpecBattleLong
MaxPushes == 10
MaxBattles == 2
LongPushes == 50
LongBattles == 1
\* cap on the scroll offset battleScroll may build up
MaxScroll == 1

\* the parts of working RAM battlePoll reads, as snapshots: the flag word,
\* species, HP and status of the two battlers, current move and attacker
Mems ==
    { [flags |-> 0, species |-> <<1, 2>>, hp |-> <<10, 10>>,
       status |-> <<0, 0>>, curMove |-> 0, attacker |-> 0],
      [flags |-> 1, species |-> <<1, 2>>, hp |-> <<10, 10>>,
       status |-> <<0, 0>>, curMove |-> 0, attacker |-> 0],
      [flags |-> 1, species |-> <<1, 2>>, hp |-> <<10, 0>>,
       status |-> <<0, 8>>, curMove |-> 5, attacker |-> 0],
      [flags |-> 65536, species |-> <<3, 2>>, hp |-> <<5, 10>>,
       status |-> <<256, 0>>, curMove |-> 5, attacker |-> 1],
      [flags |-> 1, species |-> <<0, 2>>, hp |-> <<0, 10>>,
       status |-> <<0, 0>>, curMove |-> 0, attacker |-> 0] }

\* a & ~b on the low 9 bits
RECURSIVE AndNot(_, _, _)
AndNot(a, b, k) ==
    IF k < 0 THEN 0
    ELSE ((a \div (2 ^ k)) % 2) * (1 - ((b \div (2 ^ k)) % 2)) * (2 ^ k)
         + AndNot(a, b, k - 1)

\* statusName(bits) != NULL
StatusNamed(bits) == bits % 256 # 0

\* logPush as it would be if the count were not capped
logPushUncapped(b, class) ==
    [b EXCEPT !.sLog[b.sLogHead] = <<class, b.seq + 1>>,
              !.sLogHead = (b.sLogHead + 1) % LOG_MAX,
              !.sLogCount = b.sLogCount + 1,
              !.sLogScroll = 0,
              !.seq = b.seq + 1, !.total = b.total + 1]

\* lines 426-434: logPush(text, color)
logPush(b, class) ==
    [b EXCEPT !.sLog[b.sLogHead] = <<class, b.seq + 1>>,
              !.sLogHead = (b.sLogHead + 1) % LOG_MAX,
              !.sLogCount = IF b.sLogCount < LOG_MAX THEN b.sLogCount + 1
                                                     ELSE b.sLogCount,
              !.sLogScroll = 0,
              !.seq = b.seq + 1, !.total = b.total + 1]

\* the null pointer logGet returns, in the shape of an entry
NO_ENTRY == <<"NULL", NULL>>

\* lines 437-442: logGet(fromNewest)
logGet(b, fromNewest) ==
    IF fromNewest >= b.sLogCount THEN NO_ENTRY
    ELSE b.sLog[(b.sLogHead - 1 - fromNewest + LOG_MAX) % LOG_MAX]

\* the start branch as it would be without the reset of head and count
BattleStartKeepsLog(b, m) ==
    [logPush(b, "start")
        EXCEPT !.sPendingMove = 0, !.sPendingAttacker = NO_ATTACKER,
               !.sPrevSpecies = m.species, !.sPrevHP = m.hp,
               !.sPrevStatus = m.status, !.sLogVisible = 1,
               !.battles = b.battles + 1]

\* lines 467-486: the branch inBattle && !sBattleWasActive
BattleStart(b, m) ==
    [logPush([b EXCEPT !.sLogHead = 0, !.sLogCount = 0, !.sLogScroll = 0,
                       !.seq = 0], "start")
        EXCEPT !.sPendingMove = 0, !.sPendingAttacker = NO_ATTACKER,
               !.sPrevSpecies = m.species, !.sPrevHP = m.hp,
               !.sPrevStatus = m.status, !.sLogVisible = 1,
               !.battles = b.battles + 1]

\* lines 487-490: the branch !inBattle && sBattleWasActive
BattleEnd(b) == [logPush(b, "end") EXCEPT !.sLogVisible = 0]

\* lines 494-508: track the current move
TrackMove(b, m) ==
    LET b1 == IF m.curMove # 0 /\ m.curMove # b.sPendingMove
              THEN [b EXCEPT !.sPendingMove = m.curMove,
                             !.sPendingAttacker = m.attacker]
              ELSE b
    IN  IF m.curMove = 0 THEN [b1 EXCEPT !.sPendingMove = 0] ELSE b1

\* lines 543-583: HP change of battler k (1 = player, 2 = opponent here)
DiffHP(b, m, k) ==
    LET hp == m.hp[k]
        diff == b.sPrevHP[k] - hp
        attacker == IF k = 1 THEN 1 ELSE 0
        attributed == b.sPendingMove # 0 /\ b.sPendingAttacker = attacker
    IN  IF ~(hp # b.sPrevHP[k] /\ b.sPrevSpecies[k] # 0) THEN b
        ELSE IF diff > 0
        THEN LET b1 == logPush(b, "event")
                 b2 == IF attributed
                       THEN [b1 EXCEPT !.sPendingMove = 0,
                                       !.sPendingAttacker = NO_ATTACKER]
                       ELSE b1
             IN  IF hp = 0 THEN logPush(b2, "event") ELSE b2
        ELSE IF diff < 0 THEN logPush(b, "event")
        ELSE b

\* lines 585-604: status change of battler k
DiffStatus(b, m, k) ==
    LET status == m.status[k]
        newBits == AndNot(status, b.sPrevStatus[k], 8)
    IN  IF ~(status # b.sPrevStatus[k] /\ b.sPrevSpecies[k] # 0) THEN b
        ELSE LET b1 == IF newBits # 0 /\ StatusNamed(newBits)
                       THEN logPush(b, "event") ELSE b
             IN  IF b.sPrevStatus[k] # 0 /\ status = 0
                 THEN logPush(b1, "event") ELSE b1

\* lines 510-609: one iteration of the loop over the battlers
DiffBattler(b, m, k) ==
    IF m.species[k] = 0
    THEN [b EXCEPT !.sPrevSpecies[k] = 0, !.sPrevHP[k] = 0,
                   !.sPrevStatus[k] = 0]
    ELSE IF m.species[k] # b.sPrevSpecies[k] /\ b.sPrevSpecies[k] # 0
    THEN [logPush(b, "event")
             EXCEPT !.sPrevHP[k] = m.hp[k], !.sPrevStatus[k] = m.status[k],
                    !.sPrevSpecies[k] = m.species[k]]
    ELSE [DiffStatus(DiffHP(b, m, k), m, k)
             EXCEPT !.sPrevSpecies[k] = m.species[k], !.sPrevHP[k] = m.hp[k],
                    !.sPrevStatus[k] = m.status[k]]

\* lines 456-610: battlePoll(wram, rom) on the snapshot m
PollResult(b, m) ==
    LET inBattle == IF m.flags # 0 THEN 1 ELSE 0
        b1 == IF inBattle = 1 /\ b.sBattleWasActive = 0 THEN BattleStart(b, m)
                                                         ELSE b
        b2 == IF inBattle = 0 /\ b1.sBattleWasActive # 0 THEN BattleEnd(b1)
                                                          ELSE b1
        b3 == [b2 EXCEPT !.sBattleWasActive = inBattle]
    IN  IF inBattle = 0 THEN b3
        ELSE DiffBattler(DiffBattler(TrackMove(b3, m), m, 1), m, 2)

battlePollWithin(pushes, battles) ==
    /\ \E m \in Mems :
          LET r == PollResult(bt, m)
          IN  /\ r.total <= pushes
              /\ r.battles <= battles
              /\ bt' = [r EXCEPT !.last = "poll", !.flags = m.flags]
    /\ UNCHANGED <<cacheVars, lz, auxVars, tile, mon, ui>>

battlePoll == battlePollWithin(MaxPushes, MaxBattles)

battlePollLong == battlePollWithin(LongPushes, LongBattles)

\* lines 609-668: battleDrawLog; maxLines follows from the layout
MaxLinesSet == {1, 10}

battleDrawLog ==
    /\ \E maxLines \in MaxLinesSet :
          IF bt.sLogVisible = 0
          THEN bt' = [bt EXCEPT !.last = "other"]
          ELSE LET maxScroll == IF bt.sLogCount - maxLines < 0 THEN 0
                                ELSE bt.sLogCount - maxLines
                   scroll == IF bt.sLogScroll > maxScroll THEN maxScroll
                             ELSE bt.sLogScroll
               IN  bt' = [bt EXCEPT !.sLogScroll = scroll,
                                    !.last = "other"]
    /\ UNCHANGED <<cacheVars, lz, auxVars, tile, mon, ui>>

\* battleIsActive()
battleIsActive == bt.sBattleWasActive

\* battleToggleLog()
battleToggleLog ==
    /\ bt' = [bt EXCEPT !.sLogVisible = IF bt.sLogVisible = 0 THEN 1 ELSE 0,
                        !.sLogScroll = 0,
                        !.last = "other"]
    /\ UNCHANGED <<cacheVars, lz, auxVars, tile, mon, ui>>

\* battleScroll(delta)
battleScroll ==
    /\ \E delta \in {-1, 1} :
          /\ bt.sLogScroll + delta <= MaxScroll
          /\ bt' = [bt EXCEPT !.sLogScroll = IF bt.sLogScroll + delta < 0 THEN 0
                                             ELSE bt.sLogScroll + delta,
                              !.last = "other"]
    /\ UNCHANGED <<cacheVars, lz, auxVars, tile, mon, ui>>

BattleInit ==
    /\ CacheStart
    /\ lz = LZIdle
    /\ AuxStart

BattleNext == battlePoll \/ battleDrawLog \/ battleToggleLog \/ battleScroll

SpecBattle == BattleInit /\ [][BattleNext]_vars

BattleLongNext ==
    battlePollLong \/ battleDrawLog \/ battleToggleLog \/ battleScroll

SpecBattleLong == BattleInit /\ [][BattleLongNext]_vars

(***************************************************************************)
(* Properties of the texture cache                                         *)
(***************************************************************************)
LookupOps == {"hit", "fill", "evict"}

AllInUse == \A i \in Slots : sTexInited[i] # 0

\* the key the specification assigns to (id, grayscale): id with bit 15 set
\* iff grayscale
ExpectedKey(species, grayscale) == species + 32768 * grayscale

\* C1: round-robin eviction.  With all 8 slots in use, the k-th miss since
\* the last release decodes into slot k mod 8 (so the first one into slot 0),
\* whatever was hit in between, and every such miss moves the cursor on by
\* exactly one whether the decode succeeds or fails.
C1_RoundRobin ==
    /\ AllInUse => sNextEvict = fullMisses % 8
    /\ lastCall.op = "evict" =>
          /\ fullMisses >= 1
          /\ lastCall.slot = (fullMisses - 1) % 8
          /\ sNextEvict = (lastCall.slot + 1) % 8

\* the ninth miss on a full cache has wrapped round to slot 0, here with a
\* failing decode
C1_Witness ==
    /\ lastCall.op = "evict"
    /\ lastCall.ret = NULL
    /\ fullMisses = 9
    /\ lastCall.slot = 0

\* C2 (as stated): after a failed decode on the eviction path the slot chosen
\* by the cursor is no longer in use.
C2_Original ==
    (lastCall.op = "evict" /\ lastCall.ret = NULL) => sTexInited[lastCall.slot] = 0

\* C2 (amended): a failed decode on the eviction path leaves the slot chosen
\* by the cursor exactly as it was -- still in use, under its previous key,
\* with its previous pixels, so later lookups of that key still hit it --
\* while the caller receives an absent result and the cursor has moved on.
C2_FailedEvictKeepsSlot ==
    [][ (lastCall'.op = "evict" /\ lastCall'.ret = NULL) =>
           /\ sTexInited[lastCall'.slot] # 0
           /\ sTexInited'[lastCall'.slot] # 0
           /\ sCachedSpecies'[lastCall'.slot] = sCachedSpecies[lastCall'.slot]
           /\ sSpriteTex'[lastCall'.slot] = sSpriteTex[lastCall'.slot]
           /\ lastCall'.slot = sNextEvict
           /\ sNextEvict' = (sNextEvict + 1) % 8 ]_vars

\* a decode failed on the eviction path and the chosen slot is still in use
C2_Witness ==
    /\ lastCall.op = "evict"
    /\ lastCall.ret = NULL
    /\ sTexInited[lastCall.slot] = 1
    /\ sSpriteTex[lastCall.slot] # <<>>

\* every in-use slot stores the key of the image its texture holds
C3_KeyMatchesImage ==
    \A i \in Slots :
        sTexInited[i] # 0 =>
            /\ sSpriteTex[i] # <<>>
            /\ sCachedSpecies[i] = ExpectedKey(sSpriteTex[i][1], sSpriteTex[i][2])

\* a decode call that fails changes no flag, key or pixel
C3_FailedDecodeStep ==
    (lastCall'.decodes = 1 /\ lastCall'.ret = NULL) =>
        /\ sTexInited' = sTexInited
        /\ sCachedSpecies' = sCachedSpecies
        /\ sSpriteTex' = sSpriteTex

\* C3: no stale image under a new key.  In every reachable state each in-use
\* slot's key is the key of the last successful decode written into it, and
\* a failed decode changes neither a key nor pixels.
C3_NoStaleImage ==
    /\ []C3_KeyMatchesImage
    /\ [][C3_FailedDecodeStep]_vars

\* a failed decode was attempted on a slot that holds an image
C3_Witness ==
    /\ lastCall.decodes = 1
    /\ lastCall.ret = NULL
    /\ lastCall.op = "evict"
    /\ sCachedSpecies[lastCall.slot] # 0

\* the slots in use under the key of the request lastCall' describes
HeldBy(species, grayscale) ==
    {i \in Slots : sTexInited[i] # 0
                   /\ sCachedSpecies[i] = ExpectedKey(species, grayscale)}

\* C4: a lookup whose key is held by an in-use slot returns that slot, calls
\* neither the image decoder nor the decompressor, and changes no key, flag,
\* pixel or the cursor.
C4_HitIsPure ==
    [][ (lastCall'.op \in LookupOps
         /\ HeldBy(lastCall'.species, lastCall'.gray) # {}) =>
           /\ lastCall'.op = "hit"
           /\ lastCall'.ret \in HeldBy(lastCall'.species, lastCall'.gray)
           /\ lastCall'.decodes = 0
           /\ lastCall'.lz = 0
           /\ UNCHANGED <<sSpriteTex, sCachedSpecies, sTexInited, sNextEvict>> ]_vars

\* a request was served from slot 0 while the cache was full
C4_Witness ==
    /\ lastCall.op = "hit"
    /\ lastCall.ret = 0
    /\ AllInUse

\* the keys of RequestOrder looked up since the last release
RequestedKeys == {RequestOrder[n] : n \in 1 .. nRequested}

\* C5: while at most 8 distinct decodable keys have been requested since the
\* cache was empty, no lookup takes an in-use slot away from its image, a
\* decodable key is decoded at its first request and only then, and every
\* later request for it is a hit.
C5_NoThrashing ==
    [][ (lastCall'.op \in LookupOps /\ nRequested' <= 8) =>
           /\ \A i \in Slots :
                 sTexInited[i] # 0 =>
                     /\ sTexInited'[i] # 0
                     /\ sCachedSpecies'[i] = sCachedSpecies[i]
                     /\ sSpriteTex'[i] = sSpriteTex[i]
           /\ (lastCall'.decodes = 1 /\ lastCall'.ret # NULL) =>
                 nRequested' = nRequested + 1
           /\ nRequested' = nRequested + 1 =>
                 (lastCall'.decodes = 1 /\ lastCall'.ret # NULL)
           /\ (<<lastCall'.species, lastCall'.gray>> \in RequestedKeys) =>
                 lastCall'.op = "hit" ]_vars

\* eight distinct keys are cached and the slot filled last serves a request
C5_Witness ==
    /\ nRequested = 8
    /\ AllInUse
    /\ lastCall.op = "hit"
    /\ lastCall.ret = 7

\* C6: normal and grayscale variants are independent entries.  For every id
\* the draw functions accept, the stored key is the id with bit 15 set iff
\* grayscale (so the key determines id and variant), and a hit always
\* returns a slot whose image was decoded for exactly the requested id and
\* variant.
C6_VariantsIndependent ==
    /\ \A species \in 1 .. (speciesCount - 1), g \in {0, 1} :
          /\ CacheKey(species, g) % 32768 = species
          /\ CacheKey(species, g) \div 32768 = g
    /\ lastCall.op = "hit" =>
          sSpriteTex[lastCall.ret] = <<lastCall.species, lastCall.gray>>
    /\ (lastCall.op \in {"fill", "evict"} /\ lastCall.ret # NULL) =>
          sSpriteTex[lastCall.ret] = <<lastCall.species, lastCall.gray>>

\* both variants of species 1 are held in different slots and the grayscale
\* one has just been served
C6_Witness ==
    /\ lastCall.op = "hit"
    /\ lastCall.species = 1
    /\ lastCall.gray = 1
    /\ \E i, j \in Slots :
          /\ i # j
          /\ sTexInited[i] # 0 /\ sSpriteTex[i] = <<1, 0>>
          /\ sTexInited[j] # 0 /\ sSpriteTex[j] = <<1, 1>>

NoneInUse == \A i \in Slots : sTexInited[i] = 0

\* what one more spriteFree would leave in the current state
FreeAgain ==
    << [i \in Slots |-> 0],
       [i \in Slots |-> IF sTexInited[i] # 0 THEN 0 ELSE sCachedSpecies[i]],
       [i \in Slots |-> IF sTexInited[i] # 0 THEN <<>> ELSE sSpriteTex[i]],
       0, 0 >>

\* C7: spriteFree leaves no slot in use and the cursor at 0, in whatever
\* state it is called; a second spriteFree would change nothing; and as long
\* as no slot is in use every lookup is a miss that decodes into slot 0.
C7_ReleaseAll ==
    /\ [](lastCall.op = "free" =>
            /\ NoneInUse
            /\ sNextEvict = 0
            /\ FreeAgain = <<sTexInited, sCachedSpecies, sSpriteTex,
                             sNextEvict, sWhiteInited>>)
    /\ [][ (NoneInUse /\ lastCall'.op \in LookupOps) =>
              /\ lastCall'.op = "fill"
              /\ lastCall'.decodes = 1
              /\ lastCall'.slot = 0
              /\ sNextEvict' = 0 ]_vars

\* a release has just been made
C7_Witness ==
    /\ lastCall.op = "free"
    /\ NoneInUse
    /\ sNextEvict = 0

\* C8: populating or evicting slot i writes only slot i (flag, key, pixels),
\* and two slots in use at the same time never hold the same key.
C8_SlotsDisjoint ==
    /\ [](\A i, j \in Slots :
            (i # j /\ sTexInited[i] # 0 /\ sTexInited[j] # 0) =>
                /\ sCachedSpecies[i] # sCachedSpecies[j]
                /\ sSpriteTex[i] # sSpriteTex[j])
    /\ [][ lastCall'.op \in {"fill", "evict"} =>
              \A j \in Slots :
                  j # lastCall'.slot =>
                      /\ sTexInited'[j] = sTexInited[j]
                      /\ sCachedSpecies'[j] = sCachedSpecies[j]
                      /\ sSpriteTex'[j] = sSpriteTex[j] ]_vars

\* slot 3 was overwritten by an eviction while the other seven stayed in use
C8_Witness ==
    /\ lastCall.op = "evict"
    /\ lastCall.ret = 3
    /\ AllInUse

(***************************************************************************)
(* Properties of decompLZ77                                                *)
(***************************************************************************)
\* the 24-bit size the header declares
DeclaredSize == lz.header \div 256

\* the destination indices written so far
Written == {k \in DOMAIN lz.dst : lz.dst[k] # UNWRITTEN}

\* C9: when header byte 0 is not 0x10, or the declared 24-bit size exceeds
\* maxOut, decompLZ77 returns 0 and writes no byte of the destination.
C9_RejectsBadHeader ==
    (lz.pc # "idle" /\ (lz.header % 256 # 16 \/ DeclaredSize > lz.maxOut)) =>
        /\ lz.pc \in {"entry", "done"}
        /\ lz.pc = "done" => lz.ret = 0
        /\ Written = {}

\* a valid tag with a declared size of 65536 + 1 was rejected for capacity 2
C9_Witness ==
    /\ lz.pc = "done"
    /\ lz.header = 16 + 256 * 65537
    /\ lz.maxOut = 2
    /\ lz.ret = 0

\* C10: with a valid tag and a declared size <= maxOut, decompLZ77 never
\* writes an index >= size, has written exactly 0 .. di-1 at every point,
\* and returns the declared size with exactly 0 .. size-1 written, also when
\* the last flag byte or the last back-reference was cut short.
C10_ExactOutput ==
    (lz.pc # "idle" /\ lz.header % 256 = 16 /\ DeclaredSize <= lz.maxOut) =>
        /\ \A k \in Written : k < DeclaredSize
        /\ Written = 0 .. (lz.di - 1)
        /\ lz.di <= DeclaredSize
        /\ lz.pc = "done" =>
              /\ lz.ret = DeclaredSize
              /\ Written = 0 .. (DeclaredSize - 1)

\* a decode of 4 bytes ended in the middle of a back-reference
C10_Witness ==
    /\ lz.pc = "done"
    /\ lz.stopped = "copy"
    /\ lz.ret = 4
    /\ lz.bit >= 0

\* the output position at which the current back-reference started
CopyStart == lz.di - lz.i

\* C11: a back-reference with offset < length that starts at position p with
\* offset <= p is copied byte at a time: each byte written so far equals the
\* byte `offset` positions before it as the buffer stands, so the run is the
\* periodic repetition of the `offset` bytes before p and holds no byte that
\* was not decoded.
C11_OverlappingCopy ==
    (lz.pc = "copy" /\ lz.off < lz.len /\ lz.off <= CopyStart) =>
        \A j \in 0 .. (lz.i - 1) :
            /\ lz.dst[CopyStart + j] # UNWRITTEN
            /\ lz.dst[CopyStart + j] = lz.dst[CopyStart + j - lz.off]
            /\ lz.dst[CopyStart + j] = lz.dst[CopyStart - lz.off + (j % lz.off)]

\* a copy with offset 2 and length 3 has re-read a byte it wrote itself,
\* and that byte is not zero
C11_Witness ==
    /\ lz.pc = "copy"
    /\ lz.off = 2
    /\ lz.len = 3
    /\ lz.i = 3
    /\ CopyStart >= 2
    /\ lz.dst[CopyStart + 2] = 1

\* C12: a back-reference whose offset exceeds the output count is not
\* guarded: the copy goes ahead with the offset as decoded, its first read
\* index is negative, and the call still returns the declared size; when no
\* offset exceeded the output count every read index lies in
\* [0, output position).
C12_OffsetNotGuarded ==
    (lz.pc # "idle" /\ lz.header % 256 = 16 /\ DeclaredSize <= lz.maxOut) =>
        /\ lz.pc = "done" => lz.ret = DeclaredSize
        /\ (lz.pc = "copy" /\ lz.i >= 1) =>
              /\ lz.rd = (lz.di - 1) - lz.off
              /\ lz.off > CopyStart => lz.negRead
        /\ (lz.pc = "copy" /\ lz.i = 1 /\ lz.off > CopyStart) => lz.rd < 0
        /\ ~lz.badOff =>
              /\ ~lz.negRead
              /\ (lz.pc = "copy" /\ lz.i >= 1) => (0 <= lz.rd /\ lz.rd < lz.di - 1)

\* a stream with an offset beyond the start of the output was decoded to the
\* end and the declared size returned
C12_Witness ==
    /\ lz.pc = "done"
    /\ lz.badOff
    /\ lz.negRead
    /\ lz.ret = DeclaredSize
    /\ lz.ret = 5

\* the top byte of a 32-bit table entry
TopByte(ptr) == ptr \div 16777216

\* the 4-byte header of the sprite and of the palette stream of a species
SpriteHeader(species) == RomHeaderWord(RomSpritePtr(species) % 33554432)
PaletteHeader(species) == RomHeaderWord(RomPalettePtr(species) % 33554432)

\* both table entries of the species carry the marker byte 0x08
BothPointersValid(species) ==
    TopByte(RomSpritePtr(species)) = 8 /\ TopByte(RomPalettePtr(species)) = 8

\* C13: when the top byte of the sprite-table entry or of the palette-table
\* entry is not 0x08 the decoder returns failure before it decompresses
\* anything, and no flag, key or pixel of any slot has changed.
C13_BadPointerFails ==
    [][ (lastCall'.decodes = 1 /\ ~BothPointersValid(lastCall'.species)) =>
           /\ lastCall'.ret = NULL
           /\ lastCall'.lz = 0
           /\ sTexInited' = sTexInited
           /\ sCachedSpecies' = sCachedSpecies
           /\ sSpriteTex' = sSpriteTex ]_vars

\* a species whose palette-table entry has top byte 0x00 was requested with
\* every slot in use and the decoder was called
C13_Witness ==
    /\ lastCall.species = 6
    /\ lastCall.decodes = 1
    /\ lastCall.ret = NULL
    /\ AllInUse

\* C14 as stated: the decoder returns no image whenever the decompression of
\* either stream, sprite tiles or palette, reports 0.
C14_Original ==
    (lastCall.decodes = 1 /\ BothPointersValid(lastCall.species)
     /\ (LZ77Return(SpriteHeader(lastCall.species), 4096) = 0
         \/ LZ77Return(PaletteHeader(lastCall.species), 64) = 0)) =>
        lastCall.ret = NULL

\* C14: with both table entries valid the decoder returns no image exactly
\* when the decompression of the sprite tile stream reports 0; a palette
\* stream whose decompression reports 0 does not fail the decode.
C14_SpriteStreamDecides ==
    (lastCall.decodes = 1 /\ BothPointersValid(lastCall.species)) =>
        /\ (lastCall.ret = NULL) <=>
              (LZ77Return(SpriteHeader(lastCall.species), 4096) = 0)
        /\ lastCall.ret = NULL => lastCall.lz = 1

\* a species whose sprite stream declares 4097 bytes was requested and the
\* decoder returned no image after one decompression
C14_Witness ==
    /\ lastCall.species = 8
    /\ lastCall.decodes = 1
    /\ lastCall.lz = 1
    /\ lastCall.ret = NULL

\* the palette stream of the species has the LZ77 tag and declares 32..64 bytes
PaletteStreamUsable(species) ==
    /\ PaletteHeader(species) % 256 = 16
    /\ (PaletteHeader(species) \div 256) % 16777216 >= 32
    /\ (PaletteHeader(species) \div 256) % 16777216 <= 64

\* C15: a decode that gets as far as the palette reads the colours from the
\* decompressed palette when decompressing it into the 64-byte buffer yields
\* at least 32 bytes, and raw from the palette region otherwise (wrong tag,
\* more than 64 or fewer than 32 declared bytes); in neither case does the
\* decode fail.
C15_PaletteSource ==
    (lastCall.decodes = 1 /\ BothPointersValid(lastCall.species)
     /\ LZ77Return(SpriteHeader(lastCall.species), 4096) # 0) =>
        /\ lastCall.ret # NULL
        /\ lastCall.lz = 2
        /\ lastCall.pal = IF PaletteStreamUsable(lastCall.species) THEN "lz"
                                                                  ELSE "raw"

\* a species whose palette stream decompresses to 16 bytes was decoded with
\* the colours read raw
C15_Witness ==
    /\ lastCall.species = 2
    /\ lastCall.decodes = 1
    /\ lastCall.ret # NULL
    /\ lastCall.pal = "raw"

(***************************************************************************)
(* Properties of the colour table                                          *)
(***************************************************************************)
\* the channels of a pixel in memory: alpha, blue, green, red, low to high
AlphaOf(px) == px[1]
BlueOf(px) == px[2]
GreenOf(px) == px[3]
RedOf(px) == px[4]

\* C16: entry 0 of the colour table is fully transparent, all 32 bits zero,
\* whatever the source value, and every entry 1..15 has alpha 0xFF, in both
\* grayscale settings.
C16_Entry0Transparent ==
    palEntry.pc = "done" =>
        /\ palEntry.i = 0 => palEntry.out = <<0, 0, 0, 0>>
        /\ palEntry.i \in 1 .. 15 => AlphaOf(palEntry.out) = 255

\* entry 0 was built from a source value with all bits set, in grayscale
C16_Witness ==
    /\ palEntry.pc = "done"
    /\ palEntry.i = 0
    /\ palEntry.c = 65535
    /\ palEntry.grayscale = 1
    /\ palEntry.out = <<0, 0, 0, 0>>

\* the case of C17: the value 0b00000_00000_11111 at an index 1..15 without
\* grayscale
LowFiveBitsBuilt ==
    /\ palEntry.pc = "done"
    /\ palEntry.grayscale = 0
    /\ palEntry.i \in 1 .. 15
    /\ palEntry.c = 31

\* C17 as stated: the value 0b00000_00000_11111 maps to a pixel whose blue
\* channel is fully saturated and whose red and green channels are zero.
C17_Original ==
    LowFiveBitsBuilt =>
        /\ BlueOf(palEntry.out) = 255
        /\ RedOf(palEntry.out) = 0
        /\ GreenOf(palEntry.out) = 0

\* C17: without grayscale the value 0b00000_00000_11111 at an index 1..15
\* maps to a pixel whose red channel carries the five set bits in its top
\* five bits and whose green and blue channels are zero, alpha 0xFF, in the
\* byte order alpha-blue-green-red from low to high; the value
\* 0b11111_00000_00000 does the same for the blue channel.
C17_LowBitsAreRed ==
    /\ LowFiveBitsBuilt =>
          /\ RedOf(palEntry.out) \div 8 = 31
          /\ GreenOf(palEntry.out) = 0
          /\ BlueOf(palEntry.out) = 0
          /\ AlphaOf(palEntry.out) = 255
    /\ (palEntry.pc = "done" /\ palEntry.grayscale = 0
        /\ palEntry.i \in 1 .. 15 /\ palEntry.c = 31744) =>
          /\ BlueOf(palEntry.out) \div 8 = 31
          /\ GreenOf(palEntry.out) = 0
          /\ RedOf(palEntry.out) = 0
          /\ AlphaOf(palEntry.out) = 255

\* the value 0b00000_00000_11111 was converted at index 15 and the highest
\* byte of the pixel is set
C17_Witness ==
    /\ LowFiveBitsBuilt
    /\ palEntry.i = 15
    /\ palEntry.out[4] # 0

\* the 8-bit channel the claim gives for a 5-bit value: (v << 3) | (v >> 2)
Replicated(v) == v * 8 + v \div 4

\* C18 as stated: every 5-bit channel value v yields the 8-bit channel
\* (v << 3) | (v >> 2), so 31 yields 255, and pure white yields 255 on all
\* three channels in grayscale mode as well.
C18_Original ==
    (palEntry.pc = "done" /\ palEntry.i \in 1 .. 15) =>
        /\ palEntry.grayscale = 0 =>
              /\ RedOf(palEntry.out) = Replicated(palEntry.c % 32)
              /\ GreenOf(palEntry.out) = Replicated((palEntry.c \div 32) % 32)
              /\ BlueOf(palEntry.out) = Replicated((palEntry.c \div 1024) % 32)
        /\ (palEntry.grayscale = 1 /\ palEntry.c % 32768 = 32767) =>
              palEntry.out = <<255, 255, 255, 255>>

(***************************************************************************)
(* Properties of the profile registry                                      *)
(***************************************************************************)
\* C19: romprofileDetect returns 1 exactly when the four bytes at 0xAC are
\* "BPRE" and the byte at 0xBC is 0, and 0 otherwise; before any detect and
\* after each, whatever it returned, romprofileGet returns a non-null
\* profile, the first entry of the table.
C19_DetectAndDefault ==
    /\ detect.pc = "done" =>
          /\ detect.ret \in {0, 1}
          /\ (detect.ret = 1) <=>
                (/\ detect.gameCode[1] = 66
                 /\ detect.gameCode[2] = 80
                 /\ detect.gameCode[3] = 82
                 /\ detect.gameCode[4] = 69
                 /\ detect.version = 0)
    /\ got.pc = "done" => (got.ret # NULL /\ got.ret = 0)

\* "BPRE" with version byte 1 was not detected and the profile asked for
\* afterwards is the first entry
C19_Witness ==
    /\ detect.pc = "done"
    /\ detect.gameCode = <<66, 80, 82, 69>>
    /\ detect.version = 1
    /\ detect.ret = 0
    /\ got.pc = "done"
    /\ got.ret = 0

(***************************************************************************)
(* Properties of the substructure order table                              *)
(***************************************************************************)
\* the four offsets have been looked up
AllRolesLookedUp == \A w \in 0 .. 3 : sub.off[w] # NULL

\* row r (0..23) of the order table as a function position -> role
OrderRow(r) == sSubstructOrder[r + 1]

\* C20: for every personality value the offsets found for the four roles are
\* pairwise distinct and together exactly {0, 12, 24, 36}; the 24 rows of the
\* order table are 24 pairwise different permutations of {0, 1, 2, 3}; a
\* value that is 0 modulo 24 puts Growth, Attacks, EVs, Misc at 0, 12, 24,
\* 36; the return 0 after the loop is never reached for a role 0..3.
C20_OffsetsArePermutation ==
    /\ Len(sSubstructOrder) = 24
    /\ \A r \in 0 .. 23 : {OrderRow(r)[k] : k \in 1 .. 4} = {0, 1, 2, 3}
    /\ \A r1 \in 0 .. 23 : \A r2 \in 0 .. 23 :
          r1 # r2 => OrderRow(r1) # OrderRow(r2)
    /\ ~sub.fallback
    /\ AllRolesLookedUp =>
          /\ {sub.off[w] : w \in 0 .. 3} = {0, 12, 24, 36}
          /\ \A w1 \in 0 .. 3 : \A w2 \in 0 .. 3 :
                w1 # w2 => sub.off[w1] # sub.off[w2]
          /\ (sub.pid[2] % 24 = 0 /\ sub.pid[1] = 0) =>
                sub.off = [w \in 0 .. 3 |-> 12 * w]
          /\ (sub.pid = <<65535, 65520>>) =>
                sub.off = [w \in 0 .. 3 |-> 12 * w]

\* the four roles were looked up for the personality value 0xFFFFFFFF
\* (row 15, EAMG)
C20_Witness ==
    /\ AllRolesLookedUp
    /\ sub.pid = <<65535, 65535>>
    /\ sub.off[2] = 0
    /\ sub.off[0] = 36

(***************************************************************************)
(* Further properties of the texture cache                                 *)
(***************************************************************************)
\* the slots not in use
Unused == {i \in Slots : sTexInited[i] = 0}

\* C24: a miss taken while a slot is unused decodes into the lowest unused
\* slot; on success that slot is in use under the requested key and is
\* returned, on failure it stays unused, nothing else changes and the result
\* is absent; the cursor does not move in either case.
C24_FillLowestUnused ==
    [][ (lastCall'.op \in LookupOps
         /\ HeldBy(lastCall'.species, lastCall'.gray) = {}
         /\ Unused # {}) =>
           /\ lastCall'.op = "fill"
           /\ lastCall'.decodes = 1
           /\ lastCall'.slot \in Unused
           /\ \A i \in Unused : lastCall'.slot <= i
           /\ sNextEvict' = sNextEvict
           /\ \A i \in Slots : i # lastCall'.slot =>
                 /\ sTexInited'[i] = sTexInited[i]
                 /\ sCachedSpecies'[i] = sCachedSpecies[i]
                 /\ sSpriteTex'[i] = sSpriteTex[i]
           /\ lastCall'.ret # NULL =>
                 /\ lastCall'.ret = lastCall'.slot
                 /\ sTexInited'[lastCall'.slot] # 0
                 /\ sCachedSpecies'[lastCall'.slot] =
                        ExpectedKey(lastCall'.species, lastCall'.gray)
           /\ lastCall'.ret = NULL =>
                 /\ sTexInited'[lastCall'.slot] = 0
                 /\ sCachedSpecies'[lastCall'.slot] = sCachedSpecies[lastCall'.slot]
                 /\ sSpriteTex'[lastCall'.slot] = sSpriteTex[lastCall'.slot] ]_vars

\* a decode into slot 3 failed while slots 0..2 were in use, slot 3 is still
\* unused and the cursor is at 0
C24_Witness ==
    /\ lastCall.op = "fill"
    /\ lastCall.ret = NULL
    /\ lastCall.slot = 3
    /\ Unused = 3 .. 7
    /\ sNextEvict = 0

\* C28: in every reachable state the in-use slots are the indices 0..k-1 for
\* some k <= 8, no two in-use slots store the same key, the cursor is in
\* 0..7, and the cursor is non-zero only when all 8 slots are in use.
C28_CacheStructure ==
    /\ \E k \in 0 .. 8 : {i \in Slots : sTexInited[i] # 0} = 0 .. (k - 1)
    /\ \A i \in Slots : \A j \in Slots :
          (i # j /\ sTexInited[i] # 0 /\ sTexInited[j] # 0) =>
              sCachedSpecies[i] # sCachedSpecies[j]
    /\ sNextEvict \in 0 .. 7
    /\ sNextEvict # 0 => AllInUse

\* all slots in use and the cursor has wrapped from 7 to 0 after a failed
\* decode
C28_Witness ==
    /\ AllInUse
    /\ fullMisses = 8
    /\ sNextEvict = 0
    /\ lastCall.op = "evict"
    /\ lastCall.ret = NULL

\* the largest of three numbers
Max3(a, b, c) == IF a >= b /\ a >= c THEN a ELSE IF b >= c THEN b ELSE c

\* the entry the same source value gives without grayscale: its expanded
\* 8-bit channels
Plain == PaletteEntry(palEntry.i, palEntry.c, 0)

\* the weighted sum R*77 + G*150 + B*29 of those channels
WeightedSum == RedOf(Plain) * 77 + GreenOf(Plain) * 150 + BlueOf(Plain) * 29

\* C25: with grayscale requested every entry 1..15 has red, green and blue
\* all equal to (R*77 + G*150 + B*29) >> 8 of the entry's expanded channels;
\* the value is below 256 before the cast to 8 bits, is not above the largest
\* of the three channels, and alpha is 0xFF.
C25_GrayscaleLuma ==
    (palEntry.pc = "done" /\ palEntry.grayscale = 1 /\ palEntry.i \in 1 .. 15) =>
        /\ WeightedSum \div 256 <= 255
        /\ RedOf(palEntry.out) = WeightedSum \div 256
        /\ GreenOf(palEntry.out) = WeightedSum \div 256
        /\ BlueOf(palEntry.out) = WeightedSum \div 256
        /\ RedOf(palEntry.out) <= Max3(RedOf(Plain), GreenOf(Plain), BlueOf(Plain))
        /\ AlphaOf(palEntry.out) = 255

\* a source value with red 31, green 0, blue 16 was converted in grayscale:
\* (248*77 + 128*29) >> 8 = 89
C25_Witness ==
    /\ palEntry.pc = "done"
    /\ palEntry.grayscale = 1
    /\ palEntry.i = 7
    /\ palEntry.c = 31 + 16 * 1024
    /\ palEntry.out = <<255, 89, 89, 89>>

(***************************************************************************)
(* Properties of the tile walk                                             *)
(***************************************************************************)
\* a pair of pixels has been written
PairWritten == tile.pc \in {"walk", "flush", "done"} /\ tile.nw > 0

\* the destination index the detiling map gives for pixel (x, y): tile base
\* plus the interleaving y2 x2 y1 x1 y0 x0 of the low three bits
DetiledIndex(x, y) ==
    ((y \div 8) * 8 + (x \div 8)) * 64
    + ((x % 8) % 2) + 2 * ((y % 8) % 2)
    + 4 * (((x % 8) \div 2) % 2) + 8 * (((y % 8) \div 2) % 2)
    + 16 * ((x % 8) \div 4) + 32 * ((y % 8) \div 4)

\* the index of the decode buffer byte holding pixel (x, y)
SourceIndex(x, y) ==
    ((y \div 8) * 8 + (x \div 8)) * 32 + (y % 8) * 4 + (x % 8) \div 2

\* C23: for the pixels (x, y) and (x + 1, y) of each pair the walk writes
\* palette[n] at ((y div 8) * 8 + (x div 8)) * 64 + m with m the interleaving
\* y2 x2 y1 x1 y0 x0, n being the low nibble (even x) and the high nibble
\* (odd x) of the byte at ((y div 8) * 8 + (x div 8)) * 32 + (y mod 8) * 4
\* + (x mod 8) div 2; rows are not flipped.
C23_DetilingMap ==
    PairWritten =>
        /\ tile.last.sx \in 0 .. 63
        /\ tile.last.sy \in 0 .. 63
        /\ tile.last.sx % 2 = 0
        /\ tile.last.src = SourceIndex(tile.last.sx, tile.last.sy)
        /\ tile.last.src = SourceIndex(tile.last.sx + 1, tile.last.sy)
        /\ tile.last.lo = tile.last.byte % 16
        /\ tile.last.hi = tile.last.byte \div 16
        /\ tile.last.dLo = DetiledIndex(tile.last.sx, tile.last.sy)
        /\ tile.last.dHi = DetiledIndex(tile.last.sx + 1, tile.last.sy)

\* the pair at (18, 45) was written from the byte 0x21 at 1 365: index 1
\* goes to 2 726, index 2 to 2 727
C23_Witness ==
    /\ PairWritten
    /\ tile.last.sx = 18
    /\ tile.last.sy = 45
    /\ tile.last.byte = 33
    /\ tile.last.src = 1365
    /\ tile.last.lo = 1
    /\ tile.last.hi = 2
    /\ tile.last.dLo = 2726
    /\ tile.last.dHi = 2727

\* C29: mortonIdx is a bijection from {0..7} x {0..7} onto 0..63 and texOffset
\* one from {0..63} x {0..63} onto 0..4095; the walk never writes outside
\* 0..4095 and never writes an index twice, so at its end each of the 4096
\* pixels was written exactly once; it reads exactly the bytes 0..2047 of the
\* decode buffer, whatever size the decompression declared.
C29_WalkIsBijection ==
    /\ {mortonIdx(x, y) : x \in 0 .. 7, y \in 0 .. 7} = 0 .. 63
    /\ tile.wr \subseteq 0 .. 4095
    /\ Cardinality(tile.wr) = tile.nw
    /\ tile.rds \subseteq 0 .. 2047
    /\ Cardinality(tile.rds) = tile.nr
    /\ tile.pc = "done" =>
          /\ tile.wr = 0 .. 4095
          /\ tile.nw = 4096
          /\ tile.rds = 0 .. 2047
          /\ {texOffset(x, y, 64) : x \in 0 .. 63, y \in 0 .. 63} = 0 .. 4095

\* a walk over a buffer of which only one byte was decompressed has ended
C29_Witness ==
    /\ tile.pc = "done"
    /\ tile.decompSize = 1
    /\ tile.nw = 4096
    /\ tile.ret = 1

\* the entries the step pushed, newest first
PushedNow == { logGet(bt', k) : k \in 0 .. (bt'.total - bt.total - 1) }

\* C27: battle transitions are edge-triggered.  On the poll where the flag
\* word goes from zero to non-zero the log is cleared and afterwards holds
\* exactly one entry, the start line, and the log view is visible; on the
\* poll where it goes from non-zero to zero exactly one entry, the end line,
\* is appended and the log view is hidden; a poll without a transition adds
\* neither line; battleIsActive tells whether the flag word was non-zero at
\* the most recent poll.
C27_EdgeTriggered ==
    /\ [](battleIsActive = IF bt.flags # 0 THEN 1 ELSE 0)
    /\ [][bt'.last = "poll" =>
            /\ (bt.flags = 0 /\ bt'.flags # 0) =>
                   /\ bt'.sLogCount = 1
                   /\ logGet(bt', 0) = <<"start", 1>>
                   /\ logGet(bt', 1) = NO_ENTRY
                   /\ bt'.sLogVisible = 1
            /\ (bt.flags # 0 /\ bt'.flags = 0) =>
                   /\ bt'.total = bt.total + 1
                   /\ bt'.seq = bt.seq + 1
                   /\ logGet(bt', 0) = <<"end", bt'.seq>>
                   /\ bt'.sLogVisible = 0
            /\ ((bt.flags # 0) = (bt'.flags # 0)) =>
                   /\ \A e \in PushedNow : e[1] = "event"
                   /\ bt'.seq = bt.seq + (bt'.total - bt.total)
                   /\ bt'.sLogVisible = bt.sLogVisible
       ]_vars

\* a second battle has just started over the lines of the first
C27_Witness ==
    /\ bt.last = "poll"
    /\ bt.battles = 2
    /\ bt.sLogCount = 1
    /\ bt.sLog[0] = <<"start", 1>>
    /\ bt.sLog[3][1] = "end"

MAX_PARTY == 6
\* the width of the screen the overlay is drawn on
ScreenW == 320
\* cap on the learnset scroll offset
MaxLearnsetScroll == 1

Keys == {"ZR", "ZL", "TOUCH", "CPAD_RIGHT", "CPAD_LEFT", "CPAD_DOWN",
         "CPAD_UP"}
\* hidKeysHeld(): at most two keys held at once
HeldSets == { h \in SUBSET Keys : Cardinality(h) <= 2 }
\* hidTouchRead(): lower right corner, lower left, upper right
Touches == { <<300, 220>>, <<100, 220>>, <<300, 100>> }
\* the byte at the profile's partyCount address
PartyBytes == {0, 1, 2, 6, 255}

\* sOverlayMode++ with the wrap to 0
NextMember(u, partyCount) ==
    [u EXCEPT !.sOverlayMode = IF u.sOverlayMode + 1 >= partyCount THEN 0
                               ELSE u.sOverlayMode + 1,
              !.sLearnsetScroll = 0]

\* sOverlayMode-- with the wrap to partyCount - 1
PrevMember(u, partyCount) ==
    [u EXCEPT !.sOverlayMode = IF u.sOverlayMode - 1 < 0 THEN partyCount - 1
                               ELSE u.sOverlayMode - 1,
              !.sLearnsetScroll = 0]

\* lines 646-658: a new touch
TouchPressed(u, partyCount, touch) ==
    IF touch[1] > ScreenW \div 2 /\ touch[2] > 200
    THEN [u EXCEPT !.sShowLearnset = IF u.sShowLearnset = 0 THEN 1 ELSE 0,
                   !.sLearnsetScroll = 0]
    ELSE NextMember(u, partyCount)

\* lines 629-679: the input block, key by key in the order of the code
HandleInput(u, pressed, partyCount, touch) ==
    LET u1 == IF "ZR" \in pressed THEN NextMember(u, partyCount) ELSE u
        u2 == IF "ZL" \in pressed THEN PrevMember(u1, partyCount) ELSE u1
        u3 == IF "TOUCH" \in pressed THEN TouchPressed(u2, partyCount, touch)
                                     ELSE u2
        u4 == IF "CPAD_RIGHT" \in pressed THEN NextMember(u3, partyCount)
                                          ELSE u3
        u5 == IF "CPAD_LEFT" \in pressed THEN PrevMember(u4, partyCount)
                                         ELSE u4
        u6 == IF "CPAD_DOWN" \in pressed
              THEN [u5 EXCEPT !.sLearnsetScroll = u5.sLearnsetScroll + 1]
              ELSE u5
    IN  IF "CPAD_UP" \in pressed /\ u6.sLearnsetScroll > 0
        THEN [u6 EXCEPT !.sLearnsetScroll = u6.sLearnsetScroll - 1]
        ELSE u6

\* lines 587-693: one frame of overlayDraw
overlayDraw ==
    /\ \E held \in HeldSets, byte \in PartyBytes, touch \in Touches :
          LET partyCount == IF byte > MAX_PARTY THEN MAX_PARTY ELSE byte
              pressed == held \ ui.sPrevHeld
              u == HandleInput([ui EXCEPT !.sPrevHeld = held], pressed,
                               partyCount, touch)
              mode == IF u.sOverlayMode >= partyCount THEN 0
                      ELSE u.sOverlayMode
          IN  /\ u.sLearnsetScroll <= MaxLearnsetScroll
              /\ ui' = [u EXCEPT !.sOverlayMode = mode,
                                 !.partyCount = partyCount,
                                 !.touch = IF "TOUCH" \in pressed THEN touch
                                           ELSE <<0, 0>>,
                                 !.calls = 1,
                                 !.detailIdx = mode]
    /\ UNCHANGED <<cacheVars, lz, auxVars, tile, mon, bt>>

OverlayInit ==
    /\ CacheStart
    /\ lz = LZIdle
    /\ AuxStart

OverlayNext == overlayDraw

SpecOverlay == OverlayInit /\ [][OverlayNext]_vars

\* the keys newly pressed in the step
PressedNow == ui'.sPrevHeld \ ui.sPrevHeld

\* C26 as stated: after every overlayDraw frame the slot index passed to
\* drawDetail lies in 0..5 and is below the party count whenever the party
\* count is at least 1; a next-member input from the last member wraps to
\* index 0 and a previous-member input from index 0 wraps to the last member.
C26_Original ==
    /\ [](ui.calls = 1 =>
            /\ ui.detailIdx \in 0 .. (MAX_PARTY - 1)
            /\ ui.partyCount >= 1 => ui.detailIdx < ui.partyCount)
    /\ [][(ui'.partyCount >= 1 /\ Cardinality(PressedNow) = 1) =>
            /\ ( /\ ui.sOverlayMode = ui'.partyCount - 1
                 /\ \/ PressedNow \in {{"ZR"}, {"CPAD_RIGHT"}}
                    \/ PressedNow = {"TOUCH"} /\ ui'.touch # <<300, 220>> )
               => ui'.detailIdx = 0
            /\ ( /\ ui.sOverlayMode = 0
                 /\ PressedNow \in {{"ZL"}, {"CPAD_LEFT"}} )
               => ui'.detailIdx = ui'.partyCount - 1
       ]_vars

(***************************************************************************)
(* readSlot: decryption and decoding of one party record, and its callers  *)
(***************************************************************************)
\* a ^ b on k + 1 bits
RECURSIVE XorBits(_, _, _)
XorBits(a, b, k) ==
    IF k < 0 THEN 0
    ELSE ((BitOf(a, k) + BitOf(b, k)) % 2) * (2 ^ k) + XorBits(a, b, k - 1)

\* a ^ b on uint32_t
Xor32(a, b) == <<XorBits(a[1], b[1], 15), XorBits(a[2], b[2], 15)>>

\* the key as it would be without the owner id
KeyPidOnly(pid, otid) == pid

\* line 285: key = pid ^ otid
KeyOf(pid, otid) == Xor32(pid, otid)

\* lines 208-216: decryptSubstructs, on the 12 words at offset 0x20
decryptSubstructs(enc, key) == [i \in 0 .. 11 |-> Xor32(enc[i], key)]

\* the byte, 16-bit and 32-bit little-endian reads of decrypted[48]
ByteAt(dec, off) ==
    LET w == dec[off \div 4]
    IN  CASE off % 4 = 0 -> w[2] % 256
          [] off % 4 = 1 -> w[2] \div 256
          [] off % 4 = 2 -> w[1] % 256
          [] off % 4 = 3 -> w[1] \div 256

HalfAt(dec, off) ==
    LET w == dec[off \div 4] IN IF off % 4 = 0 THEN w[2] ELSE w[1]

WordAt(dec, off) == dec[off \div 4]

\* the validity test as it would be without the upper limit
SlotInvalidZeroOnly(species) == species = 0

\* line 294: out->species == 0 || out->species >= prof->speciesCount
SlotInvalid(species) == species = 0 \/ species >= speciesCount

\* lines 341-348: the six 5-bit IVs of ivData
UnpackIVs(ivData) ==
    << ivData[2] % 32, (ivData[2] \div 32) % 32, (ivData[2] \div 1024) % 32,
       (ivData[2] \div 32768) + 2 * (ivData[1] % 16),
       (ivData[1] \div 16) % 32, (ivData[1] \div 512) % 32 >>

\* the party records the model reads: pid and otid
SlotPids == { <<0, 0>>, <<0, 7>>, <<0, 411>>, <<4660, 22136>>,
              <<65535, 65535>> }
Otids == { <<0, 0>>, <<0, 411>>, <<4660, 22136>>, <<65535, 65535>> }
\* the raw words: one value in all twelve places but one
FillWords == { <<0, lo>> : lo \in {0, 1, 411, 412, 65535} }
RawWords == { <<hi, lo>> : hi \in {0, 43690}, lo \in {0, 1, 411, 412, 65535} }
\* current HP of the record; level and maximum HP are fixed
HPs == {0, 20}
SlotLevel == 5
SlotMaxHP == 20

\* the names of the fields of struct PokeSlot
GrowthFields == {"species", "exp"}
RestFields == {"speciesName", "moves", "pp", "nickname", "level", "curHP",
               "maxHP", "atk", "def", "spe", "spa", "spd", "nature", "status",
               "evs", "ivs"}

\* lines 283-287: pid, otid, key, decryptSubstructs
readSlotDecrypt ==
    /\ mon.pc = "ready"
    /\ LET key == KeyOf(mon.pid, mon.otid)
       IN  mon' = [mon EXCEPT !.pc = "decrypted", !.key = key,
                              !.decrypted = decryptSubstructs(mon.raw, key)]
    /\ UNCHANGED <<cacheVars, lz, auxVars, tile, ui, bt>>

\* lines 289-295: species and experience, and the validity test
readSlotGrowth ==
    /\ mon.pc = "decrypted"
    /\ LET growthOff == findSubstructOffset(mon.pid, 0).ret
           species == HalfAt(mon.decrypted, growthOff)
           m1 == [mon EXCEPT !.out.species = species,
                             !.out.exp = WordAt(mon.decrypted, growthOff + 4),
                             !.written = GrowthFields]
       IN  mon' = IF SlotInvalid(species)
                  THEN [m1 EXCEPT !.pc = "returned", !.ret = 0]
                  ELSE [m1 EXCEPT !.pc = "valid"]
    /\ UNCHANGED <<cacheVars, lz, auxVars, tile, ui, bt>>

\* lines 297-356: the rest of the fields, return 1
readSlotRest ==
    /\ mon.pc = "valid"
    /\ LET attackOff == findSubstructOffset(mon.pid, 1).ret
           evsOff == findSubstructOffset(mon.pid, 2).ret
           miscOff == findSubstructOffset(mon.pid, 3).ret
           dec == mon.decrypted
       IN  mon' = [mon EXCEPT
                     !.pc = "returned", !.ret = 1,
                     !.written = GrowthFields \cup RestFields,
                     !.out.speciesName = mon.out.species,
                     !.out.moves = << HalfAt(dec, attackOff),
                                      HalfAt(dec, attackOff + 2),
                                      HalfAt(dec, attackOff + 4),
                                      HalfAt(dec, attackOff + 6) >>,
                     !.out.pp = << ByteAt(dec, attackOff + 8),
                                   ByteAt(dec, attackOff + 9),
                                   ByteAt(dec, attackOff + 10),
                                   ByteAt(dec, attackOff + 11) >>,
                     !.out.level = SlotLevel,
                     !.out.curHP = mon.hp,
                     !.out.maxHP = SlotMaxHP,
                     !.out.nature = PidMod(mon.pid, 25),
                     !.out.evs = << ByteAt(dec, evsOff), ByteAt(dec, evsOff + 1),
                                    ByteAt(dec, evsOff + 2),
                                    ByteAt(dec, evsOff + 3),
                                    ByteAt(dec, evsOff + 4),
                                    ByteAt(dec, evsOff + 5) >>,
                     !.out.ivs = UnpackIVs(WordAt(dec, miscOff + 4))]
    /\ UNCHANGED <<cacheVars, lz, auxVars, tile, ui, bt>>

\* lines 413-435: drawDetail after its call of readSlot
drawDetail ==
    /\ mon.pc = "returned"
    /\ mon' = IF mon.ret = 0
              THEN [mon EXCEPT !.pc = "drawn", !.caller = "drawDetail",
                               !.screen = "Empty slot"]
              ELSE [mon EXCEPT !.pc = "drawn", !.caller = "drawDetail",
                               !.screen = "detail",
                               !.sprite = mon.out.species]
    /\ UNCHANGED <<cacheVars, lz, auxVars, tile, ui, bt>>

\* the sidebar's cell of a slot below the party count, after its call of
\* readSlot
drawTeamSidebar ==
    /\ mon.pc = "returned"
    /\ mon' = IF mon.ret # 0
              THEN [mon EXCEPT !.pc = "drawn", !.caller = "drawTeamSidebar",
                               !.screen = "cell",
                               !.sprite = mon.out.species,
                               !.gray = IF mon.out.curHP = 0 THEN 1 ELSE 0]
              ELSE [mon EXCEPT !.pc = "drawn", !.caller = "drawTeamSidebar",
                               !.screen = "dim cell"]
    /\ UNCHANGED <<cacheVars, lz, auxVars, tile, ui, bt>>

SlotInit ==
    /\ CacheStart
    /\ lz = LZIdle
    /\ palEntry = PalIdle
    /\ sActive = FIRST_PROFILE
    /\ detect = DetectIdle
    /\ got = GotIdle
    /\ sub = SubIdle
    /\ tile = TileIdle
    /\ ui = UiIdle
    /\ bt = BtIdle
    /\ \E pid \in SlotPids, otid \in Otids, fill \in FillWords,
          j \in 0 .. 11, w \in RawWords, hp \in HPs :
          mon = [MonIdle EXCEPT !.pc = "ready", !.pid = pid, !.otid = otid,
                                !.raw = [i \in 0 .. 11 |->
                                            IF i = j THEN w ELSE fill],
                                !.hp = hp]

SlotNext ==
    \/ readSlotDecrypt
    \/ readSlotGrowth
    \/ readSlotRest
    \/ drawDetail
    \/ drawTeamSidebar

SpecSlot == SlotInit /\ [][SlotNext]_vars

\* C21: each of the 12 words of the decrypted region is the raw word XOR
\* (identifier XOR owner), bit by bit; hence with a zero key (identifier
\* equal to owner, e.g. both 0) the decrypted region is the raw region, and
\* decrypting the decrypted region again with the same key gives the raw
\* region back.
C21_DecryptIsXor ==
    mon.pc \in {"decrypted", "valid", "returned", "drawn"} =>
        /\ \A i \in 0 .. 11, h \in 1 .. 2, k \in 0 .. 15 :
              BitOf(mon.decrypted[i][h], k)
                = ( BitOf(mon.raw[i][h], k) + BitOf(mon.pid[h], k)
                    + BitOf(mon.otid[h], k) ) % 2
        /\ mon.pid = mon.otid => mon.decrypted = mon.raw
        /\ decryptSubstructs(mon.decrypted, mon.key) = mon.raw

\* pid 0x12345678, otid 0xFFFFFFFF: the raw word 0x0000019B decrypts to
\* 0xEDCBA81C
C21_Witness ==
    /\ mon.pc = "decrypted"
    /\ mon.pid = <<4660, 22136>>
    /\ mon.otid = <<65535, 65535>>
    /\ mon.raw[5] = <<0, 411>>
    /\ mon.decrypted[5] = <<60875, 43036>>

\* C22: readSlot returns 0 exactly when the species decoded from the Growth
\* substructure is 0 or at least the profile's species count, whatever the
\* other fields hold; it then has written only species and experience;
\* drawDetail then shows only "Empty slot", the sidebar a dim cell, and no
\* sprite is requested.
C22_InvalidSlot ==
    mon.pc \in {"returned", "drawn"} =>
        /\ mon.out.species
             = HalfAt(mon.decrypted, findSubstructOffset(mon.pid, 0).ret)
        /\ mon.ret = 0 <=> \/ mon.out.species = 0
                           \/ mon.out.species >= speciesCount
        /\ mon.ret # 0 <=> mon.ret = 1
        /\ mon.ret = 0 =>
              /\ mon.written = {"species", "exp"}
              /\ [mon.out EXCEPT !.species = NULL, !.exp = <<NULL, NULL>>]
                   = OutBlank
              /\ mon.pc = "drawn" =>
                    /\ mon.sprite = NULL
                    /\ mon.caller = "drawDetail" => mon.screen = "Empty slot"
                    /\ mon.caller = "drawTeamSidebar" =>
                           mon.screen = "dim cell"
        /\ (mon.ret = 1 /\ mon.pc = "drawn") => mon.sprite = mon.out.species

\* species 412, the first id outside the table, decoded behind a non-zero
\* key, shown by the sidebar
C22_Witness ==
    /\ mon.pc = "drawn"
    /\ mon.ret = 0
    /\ mon.out.species = 412
    /\ mon.key # <<0, 0>>
    /\ mon.caller = "drawTeamSidebar"
    /\ mon.screen = "dim cell"

====
